---------------------------- MODULE Spec2Model ----------------------------
(***************************************************************************)
(* Model of the clan-application bot: the eligibility filter of the        *)
(* application flows (cogs/applications/comp_clan.py, components.py,       *)
(* core/checks.py) and the application-session registry                    *)
(* (data/packages.json) with the component callbacks that read, modify and *)
(* write it.                                                               *)
(*                                                                         *)
(* Handlers are coroutines of a single-threaded cooperative scheduler: a   *)
(* handler runs atomically from one await to the next.  Each action below  *)
(* is one such segment; segments separated only by awaits that touch no    *)
(* shared state are merged.                                                *)
(***************************************************************************)
EXTENDS Integers, Sequences, FiniteSets, TLC

\* JSON null / Python None
NULL == "null"

(***************************************************************************)
(* Bounds of the model.                                                    *)
(***************************************************************************)
\* clans in a registry drawn for the eligibility filter
MaxClans == 2
\* handler coroutines in flight at once
MaxHandlers == 2
\* application sessions (tokens) created in a behaviour of Spec
MaxSessions == 1
\* application sessions created in a behaviour of SpecFlows
MaxFlowSessions == 2
\* summaries posted per session that the model counts: the count saturates
MaxSummaries == 2
\* create_ticket coroutines in flight at once
MaxCreators == 2
\* ticket channels created in a behaviour
MaxChannels == 2

\* number of on_message_create coroutines in flight at once
MaxListeners == 2

\* the clock stops here
MaxTime == 2

\* number of deletion warnings a behaviour may post
MaxWarnings == 2

\* the clock of the trial events stops here
MaxTrialTime == 2

\* number of polls a behaviour may open
MaxPolls == 1

\* number of accepted presses a behaviour may count
MaxVotes == 4

\* number of clan checks commands in flight at once
MaxCommands == 2

\* number of handlers of member_tags.json in flight at once
MaxLinkers == 2

\* number of handlers that look game data up in flight at once
MaxLookups == 2

\* number of lookups a behaviour may start
MaxFetches == 3

\* number of runs of update_player_cache a behaviour may start
MaxRefreshes == 2

\* number of runs of clear_player_cache in a behaviour
MaxClears == 2

(***************************************************************************)
(* Program constants.                                                      *)
(***************************************************************************)
\* comp_clan.py:269 "if clan_count >= 30: break"
ClanOptionCap == 30

(***************************************************************************)
(* Strings that the code parses are sequences of one-character strings.    *)
(***************************************************************************)
DigitChars == <<"0", "1", "2", "3", "4", "5", "6", "7", "8", "9">>

IsDigit(c) == \E d \in 1..10 : DigitChars[d] = c

DigitVal(c) == (CHOOSE d \in 1..10 : DigitChars[d] = c) - 1

\* str(n) for 0 <= n <= 99
Str(n) == IF n < 10 THEN <<DigitChars[n + 1]>>
          ELSE <<DigitChars[(n \div 10) + 1], DigitChars[(n % 10) + 1]>>

\* clan_cmds.py:981  "requirement": f"TH{clan_req}+"
Requirement(clan_req) == <<"T", "H">> \o Str(clan_req) \o <<"+">>

RECURSIVE DigitRun(_, _, _)
\* value of the maximal run of digits of s that starts at position i, given
\* the value acc of the digits already consumed
DigitRun(s, i, acc) ==
    IF i > Len(s) \/ ~IsDigit(s[i]) THEN acc
    ELSE DigitRun(s, i + 1, acc * 10 + DigitVal(s[i]))

\* core/utils.py extract_integer(input_string, index=0): the first run of
\* digits as an integer, None when the string is empty or has no digit
\* (the callers modelled never pass None)
extract_integer(s) ==
    IF s = <<>> THEN NULL
    ELSE IF \E i \in 1..Len(s) : IsDigit(s[i])
         THEN DigitRun(s, CHOOSE i \in 1..Len(s) :
                              IsDigit(s[i]) /\ \A j \in 1..(i - 1) : ~IsDigit(s[j]), 0)
         ELSE NULL

(***************************************************************************)
(* Eligibility checks (core/checks.py).  A player is the API snapshot      *)
(* reduced to what the checks read: town_hall, the sum of home-base hero   *)
(* levels, the sum of those heroes' maximum levels at the player's town    *)
(* hall, and the same two sums for troops and spells together.             *)
(* The percentage comparisons are done by the code in floating point       *)
(* ((cur / max) * 100 < min_value); the model compares the exact rationals.*)
(***************************************************************************)
hero_sum_check(target, min_value) ==
    ~(target.hero_sum < min_value)

\* mutant: no maximum levels count as a failed check
hero_max_check_zero_fails(target, min_value) ==
    IF target.hero_max_sum = 0 THEN FALSE
    ELSE ~(target.hero_sum * 100 < min_value * target.hero_max_sum)

hero_max_check(target, min_value) ==
    IF target.hero_max_sum = 0 THEN TRUE
    ELSE ~(target.hero_sum * 100 < min_value * target.hero_max_sum)

overall_max_check(target, min_value) ==
    LET total_current == target.hero_sum + target.other_sum
        total_max     == target.hero_max_sum + target.other_max_sum
    IN  IF total_max = 0 THEN TRUE
        ELSE ~(total_current * 100 < min_value * total_max)

\* CLAN_CHECKS[check](player, **check_kwargs)
CLAN_CHECKS(check, target, min_value) ==
    CASE check = "hero_sum"    -> hero_sum_check(target, min_value)
      [] check = "hero_max"    -> hero_max_check(target, min_value)
      [] check = "overall_max" -> overall_max_check(target, min_value)


(***************************************************************************)
(* Data.  clans_config is data/clans_config.json: clan tag -> record with  *)
(* recruitment, type, requirement (a string), maximum_possibleTH (an       *)
(* optional string) and checks, the dict of checks in insertion order as a *)
(* sequence of [name, min_value].                                          *)
(***************************************************************************)
Users == {"u1", "u2"}

\* the users who apply (users are interchangeable: the other one is the
\* stranger who presses the components of sessions he does not own)
Applicants == {"u1"}

ClanTags == {"#C1", "#C2", "#C3"}

Tokens == 1..(IF MaxSessions > MaxFlowSessions THEN MaxSessions ELSE MaxFlowSessions)

Handlers == 1..MaxHandlers

VARIABLES
    clans_config,   \* data/clans_config.json
    players,        \* the game API: account tag -> player snapshot
    packages,       \* data/packages.json: token -> ApplicationPackage
    messages,       \* the selection message of each token: its components
    handlers,       \* the coroutines in flight: locals and position
    reply,          \* what the last step told its user, "none" when nothing
    final,          \* finalization side effects per token
    issued,         \* number of tokens generated so far
    quota           \* number of tokens the behaviour may generate

VARIABLES
    channels,       \* the guild's text channels: id -> parent, topic, name
    open_tickets,   \* data/open_tickets.json: member id -> channel ids
    creators,       \* the create_ticket coroutines in flight
    created         \* number of channels created so far (ids are never reused)

VARIABLES
    ticket_data,    \* data/ticket_data.json: <<channel, member>> -> [date, message]
    now,            \* the clock
    sweep,          \* the auto_delete coroutine: locals and position
    listeners,      \* the on_message_create coroutines in flight
    warned,         \* number of deletion warnings posted so far (message ids)
    warnings,       \* the deletion warnings that are still in their channels
    dms,            \* the members the sweep has sent its direct message to
    swept,          \* the channels the sweep has deleted
    timer_status    \* per key, the last change its users saw: armed, disarmed, cancelled

VARIABLES
    trial_events,   \* data/trial_events.json: <<channel, member>> -> event
    trials,         \* the auto_trials coroutine: locals and position
    announced       \* the trial announcements posted: <<key, action>>

VARIABLES
    ticket_events,  \* data/ticket_events.json
    posted,         \* the selection messages that are still in their channels
    pending,        \* the deletion events the gateway has yet to deliver
    handled,        \* the deletion events whose listener has run
    cleaner         \* the cleanup_data_files coroutine: locals and position

VARIABLES
    trial_votes,    \* data/trial_votes.json: poll token -> the three buckets
    votes_cast,     \* number of accepted presses so far
    ballots,        \* the presses handled: the last one, and by poll and voter
                    \* the bucket of the voter's last accepted press
    commands,       \* the clan checks commands in flight: locals and position
    member_tags,    \* data/member_tags.json: user id -> linked account tags
    linkers,        \* the handlers of member_tags.json in flight
    interview       \* the input step of an application flow: position, fails

VARIABLES
    player_cache,     \* core/utils.py:45 player_cache: account tag -> data
    clan_cache,       \* core/utils.py:44 clan_cache: clan tag -> data
    overwrites_cache, \* core/utils.py:46 overwrites_cache: channel id -> overwrites
    lookups,          \* the handlers that wait for an answer to a lookup
    cache_tasks       \* update_player_cache's position and locals, run counts

\* the variables of the ticket subsystem
ticketVars == <<channels, open_tickets, creators, created>>

\* the variables of the deletion timers
timerVars == <<ticket_data, now, sweep, listeners, warned, warnings, dms, swept, timer_status>>

\* the variables of the trial events
trialVars == <<trial_events, trials, announced>>

\* the variables of the deletion events
gcVars == <<ticket_events, posted, pending, handled, cleaner>>

\* the variables of the polls
voteVars == <<trial_votes, votes_cast, ballots>>

\* the variables of the linked accounts
linkVars == <<member_tags, linkers>>

\* the variables of the in-memory caches
cacheVars == <<player_cache, clan_cache, overwrites_cache, lookups, cache_tasks>>

\* the variables of the polls, the clan checks, the links, the interview
\* and the caches
laterVars == <<voteVars, commands, linkVars, interview, cacheVars>>

\* the variables of the tickets, the timers, the trials and the deletions
earlierVars == <<ticketVars, timerVars, trialVars, gcVars>>

\* everything but the application sessions (and reply)
world == <<earlierVars, laterVars>>

\* what the actions of the ticket subsystem leave alone besides the sessions
beyondTickets == <<timerVars, trialVars, gcVars, laterVars>>

\* what the actions of the deletion timers leave alone besides the channels,
\* their deletion events and the timers
beyondTimers ==
    <<clans_config, players, packages, messages, handlers, reply, final, issued, quota,
      open_tickets, creators, created, trialVars, ticket_events, posted, handled, cleaner,
      laterVars>>

\* what the actions of the trial events leave alone besides the channels,
\* the clock and the trial events
beyondTrials ==
    <<clans_config, players, packages, messages, handlers, reply, final, issued, quota,
      open_tickets, creators, created,
      ticket_data, sweep, listeners, warned, warnings, dms, swept, timer_status, gcVars,
      laterVars>>

\* what the deletion handlers leave alone besides the registries, the
\* channels and the deletion events
beyondGc ==
    <<clans_config, players, messages, handlers, reply, final, issued, quota,
      creators, created, now, sweep, listeners, warned, dms, swept, timer_status,
      trials, announced, laterVars>>

\* what the actions of the polls, of the clan checks, of the links and of
\* the interview leave alone
beyondVotes ==
    <<clans_config, players, packages, messages, handlers, final, issued, quota,
      earlierVars, commands, linkVars, interview, cacheVars>>

beyondChecks ==
    <<players, packages, messages, handlers, final, issued, quota,
      earlierVars, voteVars, linkVars, interview, cacheVars>>

beyondLinks ==
    <<clans_config, players, packages, messages, handlers, final, issued, quota,
      earlierVars, voteVars, commands, interview, cacheVars>>

beyondInterview ==
    <<clans_config, players, packages, messages, handlers, final, issued, quota,
      earlierVars, voteVars, commands, linkVars, cacheVars>>

\* what the lookups and the cache tasks leave alone
beyondCaches ==
    <<clans_config, players, packages, messages, handlers, final, issued, quota,
      earlierVars, voteVars, commands, linkVars, interview>>

\* a free create_ticket slot
\* (since: the number of channels created before the call started, kept for
\* the properties only)
NoCreator ==
    [pc |-> "idle", member |-> 0, ticket_type |-> "none", next |-> 0, channel |-> 0,
     since |-> 0]

\* no ticket, nobody creating one
TicketsIdle ==
    /\ channels = <<>>
    /\ open_tickets = <<>>
    /\ creators = [c \in 1..MaxCreators |-> NoCreator]
    /\ created = 0

\* the keys of ticket_data.json, f"{channel.id}|{member.id}", as pairs: the
\* tickets 1 and 2 with their owners
TimerKeys == {<<1, 11>>, <<2, 13>>}

\* auto_delete is not running
\* (ticket_data: its local dict; todo: the keys its loop has yet to visit)
NoSweep == [pc |-> "idle", ticket_data |-> <<>>, now |-> 0, todo |-> <<>>, data_changed |-> FALSE]

\* a free on_message_create slot
NoListener == [pc |-> "idle", key |-> <<>>, ticket_data |-> <<>>]

\* no timer armed, no sweep running, no message being handled
TimersIdle ==
    /\ ticket_data = <<>>
    /\ now = 0
    /\ sweep = NoSweep
    /\ listeners = [l \in 1..MaxListeners |-> NoListener]
    /\ warned = 0
    /\ warnings = {}
    /\ dms = {}
    /\ swept = {}
    /\ timer_status = [k \in TimerKeys |-> "none"]

\* auto_trials is not running
NoTrials == [pc |-> "idle", trial_events |-> <<>>, copy |-> <<>>, now |-> 0, todo |-> <<>>]

\* no trial event, no sweep of them running
TrialsIdle ==
    /\ trial_events = <<>>
    /\ trials = NoTrials
    /\ announced = {}

\* clean_ticket_data_json is not running
NoCleaner == [pc |-> "idle", packages |-> <<>>, ticket_data |-> <<>>]

\* nothing deleted
GcIdle ==
    /\ ticket_events = <<>>
    /\ posted = {}
    /\ pending = {}
    /\ handled = {}
    /\ cleaner = NoCleaner

\* the members who press: the last one has none of the roles of
\* trials.py:459
Voters == {21, 22, 23}
Allowed == {21, 22}

\* no press has been handled
NoBallots ==
    [last |-> <<>>, latest |-> [poll_token \in 1..MaxPolls |-> [voter \in Voters |-> "none"]]]

\* a free slot of the clan checks commands
NoCommand == [op |-> "idle", clans_config |-> <<>>, clan |-> NULL, check_type |-> NULL,
              min_value |-> 0]

\* a free slot of the handlers of member_tags.json
NoLinker == [op |-> "idle", player_links |-> <<>>, user |-> 0, tags |-> <<>>, user_id |-> 0]

\* no application flow is at an input step
NoInterview ==
    [pc |-> "idle", flow |-> "none", accounts |-> 0, i |-> 0, step |-> "none", fails |-> 0,
     shown |-> "none", account_tags |-> <<>>, player_links |-> <<>>, options |-> {},
     waits |-> [message |-> "none", select |-> "none"], first |-> "none",
     driver |-> "none", elapsed |-> 0]

\* a free slot of the handlers that look game data up
NoLookup == [pc |-> "idle", kind |-> "none", key |-> NULL, response |-> "none"]

\* update_player_cache is not running and nothing has run yet
NoCacheTasks ==
    [pc |-> "idle", keys |-> {}, key |-> NULL, response |-> "none",
     fetches |-> 0, refreshes |-> 0, completed |-> 0, clears |-> 0, faults |-> {}]

\* the caches as the module is imported (core/utils.py:44-46), no lookup
CachesIdle ==
    /\ player_cache = <<>>
    /\ clan_cache = <<>>
    /\ overwrites_cache = <<>>
    /\ lookups = [l \in 1..MaxLookups |-> NoLookup]
    /\ cache_tasks = NoCacheTasks

\* no poll, no command of the clan checks, no link, no interview, no cache
LaterIdle ==
    /\ trial_votes = <<>>
    /\ votes_cast = 0
    /\ ballots = NoBallots
    /\ commands = [c \in 1..MaxCommands |-> NoCommand]
    /\ member_tags = <<>>
    /\ linkers = [l \in 1..MaxLinkers |-> NoLinker]
    /\ interview = NoInterview
    /\ CachesIdle

\* no ticket, no timer, no trial, no deletion
EarlierIdle == TicketsIdle /\ TimersIdle /\ TrialsIdle /\ GcIdle

\* the state of everything but the application sessions in the
\* specifications of the application sessions
WorldIdle == EarlierIdle /\ LaterIdle

\* the application sessions (without reply)
sessionState == <<clans_config, players, packages, messages, handlers, final, issued, quota>>

vars == <<clans_config, players, packages, messages, handlers, reply, final, issued,
          quota, world>>

(***************************************************************************)
(* The eligibility filter of the application flows.                        *)
(***************************************************************************)
RECURSIVE RunChecksFrom(_, _, _)
\* comp_clan.py:290-299 (components.py:369-380): the clan's checks in dict
\* order from position i; stops at the first check that fails.
\* ran = number of checks called.
RunChecksFrom(player, checks, i) ==
    IF i > Len(checks) THEN [qualified |-> TRUE, ran |-> Len(checks)]
    ELSE IF ~CLAN_CHECKS(checks[i].name, player, checks[i].min_value)
         THEN [qualified |-> FALSE, ran |-> i]
         ELSE RunChecksFrom(player, checks, i + 1)

\* mutant: a failing check does not disqualify
RunChecksIgnoringFailure(player, checks) ==
    [qualified |-> TRUE, ran |-> Len(checks)]

RunChecks(player, checks) == RunChecksFrom(player, checks, 1)

\* an optional string of the JSON (dict.get): <<>> when the key is absent,
\* <<s>> when it holds the string s
Absent == <<>>

Present(s) == <<s>>

\* "if max_th_str": the key is there and its string is not empty
Truthy(opt) == opt # Absent /\ opt[1] # <<>>

\* mutant: the town-hall window and the league-only category are not tested
PassesClanSettingsNoTier(value, player, flow) ==
    /\ value.recruitment
    /\ value.type # "FWA"

\* comp_clan.py:272-287 (flow "apply") and components.py:366-372 (flow
\* "select", the staff command, which has no CWL test): the tests on the
\* clan's settings that precede its checks
PassesClanSettings(value, player, flow) ==
    /\ value.recruitment
    /\ value.type # "FWA"
    /\ (flow = "apply" => value.type # "CWL")
    /\ ~(extract_integer(value.requirement) > player.town_hall)
    /\ ~(/\ Truthy(value.maximum_possibleTH)
         /\ player.town_hall > extract_integer(value.maximum_possibleTH[1]))

\* one iteration of the loop over normal_clans for clan `key`
EvaluateClan(key, value, player, flow) ==
    IF ~PassesClanSettings(value, player, flow)
    THEN [key |-> key, offered |-> FALSE, ran |-> 0]
    ELSE LET r == RunChecks(player, value.checks)
         IN  [key |-> key, offered |-> r.qualified, ran |-> r.ran]

RECURSIVE FilterFrom(_, _, _, _, _, _)
\* comp_clan.py:262-339: the loop over normal_clans from position i with
\* clan_count options found so far; the log has one entry per clan visited
FilterFrom(normal_clans, i, clan_count, config, player, flow) ==
    IF i > Len(normal_clans) \/ clan_count >= ClanOptionCap THEN <<>>
    ELSE LET e == EvaluateClan(normal_clans[i], config[normal_clans[i]], player, flow)
         IN  <<e>> \o FilterFrom(normal_clans, i + 1,
                                 IF e.offered THEN clan_count + 1 ELSE clan_count,
                                 config, player, flow)

\* clan_options[player.tag]: the values of the options of the select menu
ClanOptions(log) == {log[i].key : i \in {j \in 1..Len(log) : log[j].offered}}

\* the orders random.shuffle can leave a list of the keys in
Orders(keys) ==
    {o \in [1..Cardinality(keys) -> keys] : \A k \in keys : \E i \in DOMAIN o : o[i] = k}

(***************************************************************************)
(* Application sessions.                                                   *)
(*                                                                         *)
(* A package is [account_tags, acc_clan, user].  The selection message of  *)
(* a token is NoMsg until it is sent, then [rows, buttons]: one row per    *)
(* account with the select menu's disabled flag, the kind of its           *)
(* placeholder ("select", "chosen", "not_eligible"), the account tag the   *)
(* placeholder shows and the menu's option values; buttons is the disabled *)
(* flag of the Cancel/Confirm row.                                         *)
(***************************************************************************)
NoMsg == [rows |-> <<>>, buttons |-> "none"]

Idle == [op |-> "idle", pc |-> "idle", actor |-> NULL, token |-> 0, row |-> 0,
         clan |-> NULL, packages |-> <<>>, components |-> NoMsg,
         normal_clans |-> <<>>, log |-> <<>>]

NoFinal == [summaries |-> 0, access |-> {}, renamed |-> FALSE, denied |-> FALSE,
            thanked |-> FALSE, logged |-> FALSE]

\* dict[key] = value
Put(d, key, value) == (key :> value) @@ d

\* any(acc_clan.values())
AnySelected(acc_clan) == \E a \in DOMAIN acc_clan : acc_clan[a] # NULL

\* any(not clan_value for clan_value in acc_clan.values())
AnyUnset(acc_clan) == \E a \in DOMAIN acc_clan : acc_clan[a] = NULL

\* mutant: everybody passes the owner test
IsOwnerAnyone(package, actor) == TRUE

\* components.py:76, 154, 305: int(user.id) != int(ctx.author.id) rejects
IsOwner(package, actor) == package.user = actor

\* a component of the message can be used: Discord delivers no interaction
\* of a disabled component or of a message that does not exist
MenuUsable(t, r, c) ==
    /\ r \in 1..Len(messages[t].rows)
    /\ ~messages[t].rows[r].disabled
    /\ c \in messages[t].rows[r].options

ButtonsUsable(t) == messages[t].buttons = "enabled"

\* wait_for_component(messages=ctx.message, check=check): the waits of the
\* selection handlers on token t's message that an interaction of `actor`
\* ends (components.py:120-137); the handler then returns
Resolved(w, t, actor) ==
    /\ handlers[w].pc \in {"wait1", "wait2"}
    /\ handlers[w].token = t
    /\ handlers[w].actor = actor

\* the slot a new coroutine takes: slots are interchangeable, the lowest
\* free one is used
FreeSlot(h) == handlers[h] = Idle /\ \A w \in 1..(h - 1) : handlers[w] # Idle

\* an interaction of `actor` on token t's message arrives and starts the
\* callback `op` in slot h
Press(h, op, pc, actor, t, r, c, snapshot) ==
    /\ FreeSlot(h)
    /\ handlers' = [w \in Handlers |->
                      IF w = h
                      THEN [Idle EXCEPT !.op = op, !.pc = pc, !.actor = actor, !.token = t,
                                        !.row = r, !.clan = c, !.packages = snapshot,
                                        !.components = messages[t]]
                      ELSE IF Resolved(w, t, actor) THEN Idle ELSE handlers[w]]

Finish(h, r) ==
    /\ handlers' = [handlers EXCEPT ![h] = Idle]
    /\ reply' = r

(***************************************************************************)
(* Creation of a session.                                                  *)
(***************************************************************************)
\* the row of the selection message for one account (comp_clan.py:341-370,
\* components.py:411-428)
MenuRow(account, options) ==
    [disabled    |-> options = {},
     placeholder |-> IF options = {} THEN "not_eligible" ELSE "select",
     account     |-> account,
     options     |-> options]

\* comp_clan.py:239-370: apply_clan from "Clan Generation Logic" on, for the
\* one account the applicant gave: reads both files, draws the token,
\* shuffles the clans and builds the menu
ApplyClanGenerate(h, member, account) ==
    /\ FreeSlot(h)
    /\ issued < quota
    /\ \E normal_clans \in Orders(DOMAIN clans_config) :
         LET log == FilterFrom(normal_clans, 1, 0, clans_config, players[account], "apply")
             msg == [rows |-> <<MenuRow(account, ClanOptions(log))>>, buttons |-> "enabled"]
         IN  handlers' = [handlers EXCEPT ![h] =
                 [op |-> "apply_clan", pc |-> "save", actor |-> member,
                  token |-> issued + 1, row |-> 0, clan |-> NULL,
                  packages |-> packages, components |-> msg,
                  normal_clans |-> normal_clans, log |-> log]]
    /\ issued' = issued + 1
    /\ reply' = "none"
    /\ UNCHANGED <<clans_config, players, packages, messages, final, quota, world>>

\* mutant: the package is stored without a clan mapping
NewPackageUnmapped(account_tags, user) ==
    [account_tags |-> account_tags, acc_clan |-> <<>>, user |-> user]

\* the package a flow stores for its accounts (comp_clan.py:373-377,
\* components.py:451-455)
NewPackage(account_tags, user) ==
    [account_tags |-> account_tags,
     acc_clan     |-> [a \in {account_tags[i] : i \in DOMAIN account_tags} |-> NULL],
     user         |-> user]

\* comp_clan.py:372-417: stores the package in the registry read at line 241
\* and shows the menu
ApplyClanSave(h) ==
    /\ handlers[h].op = "apply_clan" /\ handlers[h].pc = "save"
    /\ LET t == handlers[h].token
           account == handlers[h].components.rows[1].account
       IN  /\ packages' = Put(handlers[h].packages, t,
                              NewPackage(<<account>>, handlers[h].actor))
           /\ messages' = [messages EXCEPT ![t] = handlers[h].components]
    /\ Finish(h, "ok")
    /\ UNCHANGED <<clans_config, players, final, issued, quota, world>>

\* list(clans_config.keys()): the order of the keys in the file, an order
\* the model does not track: one fixed order per content
DictOrder(config) == CHOOSE o \in Orders(DOMAIN config) : TRUE

\* the lists of valid tags extract_tags can return from the staff's option
SeedLists == {<<"#P1", "#P2">>, <<"#P3", "#P1">>}

\* the accounts an applicant gives in the model
ApplySeeds == {"#P1", "#P3"}

\* components.py:347-447: the staff command: builds one row per account
\* (clans in dict order, no CWL test), reads the registry (line 430) and
\* sends the selection message
ClanSelectSend(h, user, account_tags) ==
    /\ FreeSlot(h)
    /\ issued < quota
    /\ LET normal_clans == DictOrder(clans_config) IN
         LET row(i) == MenuRow(account_tags[i],
                         ClanOptions(FilterFrom(normal_clans, 1, 0, clans_config,
                                                players[account_tags[i]], "select")))
             msg == [rows |-> [i \in DOMAIN account_tags |-> row(i)], buttons |-> "enabled"]
         IN  /\ handlers' = [handlers EXCEPT ![h] =
                    [Idle EXCEPT !.op = "clan_select", !.pc = "save", !.actor = user,
                                 !.token = issued + 1, !.packages = packages,
                                 !.components = msg]]
             /\ messages' = [messages EXCEPT ![issued + 1] = msg]
    /\ issued' = issued + 1
    /\ reply' = "none"
    /\ UNCHANGED <<clans_config, players, packages, final, quota, world>>

\* components.py:449-459: stores the package in the registry read at line 430
ClanSelectSave(h) ==
    /\ handlers[h].op = "clan_select" /\ handlers[h].pc = "save"
    /\ LET rows == handlers[h].components.rows
       IN  packages' = Put(handlers[h].packages, handlers[h].token,
                           NewPackage([i \in DOMAIN rows |-> rows[i].account],
                                      handlers[h].actor))
    /\ Finish(h, "ok")
    /\ UNCHANGED <<clans_config, players, messages, final, issued, quota, world>>

(***************************************************************************)
(* clan_selection (components.py:62-139).                                  *)
(***************************************************************************)
\* the select menu of row r of token t's message is used with value c;
\* line 64 defers before anything is read
SelectionPress(h, actor, t, r, c) ==
    /\ MenuUsable(t, r, c)
    /\ Press(h, "clan_selection", "deferred", actor, t, r, c, <<>>)
    /\ reply' = "none"
    /\ UNCHANGED <<clans_config, players, packages, messages, final, issued, quota, world>>

\* lines 66-84: reads the registry, looks the token up (KeyError when it is
\* absent), rejects a user who is not the owner
SelectionRead(h) ==
    /\ handlers[h].op = "clan_selection" /\ handlers[h].pc = "deferred"
    /\ LET t == handlers[h].token IN
         IF t \notin DOMAIN packages THEN Finish(h, "error")
         ELSE IF ~IsOwner(packages[t], handlers[h].actor) THEN Finish(h, "forbidden")
         ELSE /\ handlers' = [handlers EXCEPT ![h].pc = "write", ![h].packages = packages]
              /\ reply' = "none"
    /\ UNCHANGED <<clans_config, players, packages, messages, final, issued, quota, world>>

\* the registry a handler writes back: mutant that re-reads the file and
\* applies only its own change to the package
WriteBackMerged(snapshot, t, package) == Put(packages, t, package)

\* json.dump(packages, file): the whole snapshot the handler read, with its
\* package changed, replaces the file (components.py:88-89, 320-321)
WriteBack(snapshot, t, package) == Put(snapshot, t, package)

\* line 86: acc_clan[player.tag] = clan_tag
RecordSelection(package, account, clan) ==
    [package EXCEPT !.acc_clan = Put(package.acc_clan, account, clan)]

\* line 81: the account is read back from the menu's placeholder,
\* "... Select a clan for {player.name} ({player.tag})" (comp_clan.py:365,
\* components.py:316): re.search takes the first "(#...)" of the text, and
\* the name stands before the tag.  A player's `name` field lists the texts
\* of that form in the player's name, in order.
account_tag(row) == Head(players[row.account].name \o <<row.account>>)

\* lines 81-139: fetches the account the placeholder names (line 84, the
\* handler ends on InvalidTagError when the game has no such account),
\* records the selection under its tag, writes the registry, disables the
\* menu; then returns, or waits for the owner when every account has a clan
SelectionWrite(h) ==
    /\ handlers[h].op = "clan_selection" /\ handlers[h].pc = "write"
    /\ LET t       == handlers[h].token
           r       == handlers[h].row
           msg     == handlers[h].components
           account == account_tag(msg.rows[r])
           package == RecordSelection(handlers[h].packages[t], account, handlers[h].clan)
           written == WriteBack(handlers[h].packages, t, package)
       IN  IF account \notin DOMAIN players
           THEN Finish(h, "invalid_tag") /\ UNCHANGED <<packages, messages>>
           ELSE /\ packages' = written
                /\ messages' = [messages EXCEPT ![t] =
                       [msg EXCEPT !.rows[r].disabled = TRUE, !.rows[r].placeholder = "chosen"]]
                /\ reply' = "ok"
                /\ handlers' = [handlers EXCEPT ![h] =
                       IF AnyUnset(package.acc_clan) THEN Idle
                       ELSE [@ EXCEPT !.pc = "wait1", !.packages = written,
                                      !.components = messages'[t]]]
    /\ UNCHANGED <<clans_config, players, final, issued, quota, world>>

\* lines 126-132: 300 s pass without an interaction of the owner: reminder
SelectionTimeout1(h) ==
    /\ handlers[h].op = "clan_selection" /\ handlers[h].pc = "wait1"
    /\ handlers' = [handlers EXCEPT ![h].pc = "wait2"]
    /\ reply' = "reminder"
    /\ UNCHANGED <<clans_config, players, packages, messages, final, issued, quota, world>>

(***************************************************************************)
(* clan_confirm (components.py:141-296).                                   *)
(***************************************************************************)
\* the Confirm button of token t's message is pressed; line 143 defers
ConfirmPress(h, actor, t) ==
    /\ ButtonsUsable(t)
    /\ Press(h, "clan_confirm", "deferred", actor, t, 0, NULL, <<>>)
    /\ reply' = "none"
    /\ UNCHANGED <<clans_config, players, packages, messages, final, issued, quota, world>>

\* mutant: confirm does not test that an account has a selection
ConfirmAcceptsAlways(acc_clan) == TRUE

\* line 158: not any(acc_clan.values()) rejects
ConfirmAccepts(acc_clan) == AnySelected(acc_clan)

\* mutant: the buttons stay usable
disable_menus_only(msg) ==
    [msg EXCEPT !.rows = [i \in DOMAIN msg.rows |-> [msg.rows[i] EXCEPT !.disabled = TRUE]]]

\* line 163: message.edit(components=disable_components(*message.components))
disable_components(msg) ==
    [rows |-> [i \in DOMAIN msg.rows |-> [msg.rows[i] EXCEPT !.disabled = TRUE]],
     buttons |-> "disabled"]

\* lines 145-163 for the context of slot h: reads the registry, looks the
\* token up, rejects a non-owner and a session without selection, else
\* disables every component of the message
ConfirmBegin(h) ==
    /\ LET t == handlers[h].token IN
         IF t \notin DOMAIN packages
         THEN Finish(h, "error") /\ UNCHANGED messages
         ELSE IF ~IsOwner(packages[t], handlers[h].actor)
         THEN Finish(h, "forbidden") /\ UNCHANGED messages
         ELSE IF ~ConfirmAccepts(packages[t].acc_clan)
         THEN Finish(h, "validation") /\ UNCHANGED messages
         ELSE /\ handlers' = [handlers EXCEPT ![h].pc = "summary", ![h].packages = packages]
              /\ messages' = [messages EXCEPT ![t] = disable_components(handlers[h].components)]
              /\ reply' = "none"
    /\ UNCHANGED <<clans_config, players, packages, final, issued, quota, world>>

ConfirmRead(h) ==
    /\ handlers[h].op = "clan_confirm" /\ handlers[h].pc = "deferred"
    /\ ConfirmBegin(h)

\* lines 136-139: a further 300 s pass without an interaction of the owner:
\* clan_confirm(ctx) is called with the selection's context (already
\* deferred, so it reads at once)
SelectionTimeout2(h) ==
    /\ handlers[h].op = "clan_selection" /\ handlers[h].pc = "wait2"
    /\ ConfirmBegin(h)

\* lines 165-296: access for the recruiters of each selected clan, the
\* summary, the rename, the thanks.  A rename that Discord denies raises
\* inside the try of lines 260-266 and is passed over: nothing is printed
\* and the thanks follow.  Line 261 indexes clans_config with the first
\* value of acc_clan: KeyError when the first account has no selection,
\* after the summary was sent; the KeyError leaves the callback, on_error
\* prints the traceback (errors.py:86-88) and tells the owner of the error
\* (errors.py:94-103).
ConfirmSummary(h) ==
    /\ handlers[h].pc = "summary"
    /\ LET t        == handlers[h].token
           package  == handlers[h].packages[t]
           acc_clan == package.acc_clan
           selected == {acc_clan[a] : a \in DOMAIN acc_clan} \ {NULL}
           first    == acc_clan[package.account_tags[1]]
       IN  \E rename_ok \in BOOLEAN :
             /\ final' = [final EXCEPT ![t] =
                    [summaries |-> IF @.summaries < MaxSummaries THEN @.summaries + 1 ELSE @.summaries,
                     access    |-> @.access \cup selected,
                     renamed   |-> @.renamed \/ (first # NULL /\ rename_ok),
                     denied    |-> @.denied \/ (first # NULL /\ ~rename_ok),
                     thanked   |-> @.thanked \/ first # NULL,
                     logged    |-> @.logged \/ first = NULL]]
             /\ Finish(h, IF first = NULL THEN "error" ELSE "thanks")
    /\ UNCHANGED <<clans_config, players, packages, messages, issued, quota, world>>

(***************************************************************************)
(* clan_cancel (components.py:298-325).                                    *)
(***************************************************************************)
\* lines 299-307: the Cancel button is pressed: reads the registry at once,
\* looks the token up, rejects a non-owner
CancelPress(h, actor, t) ==
    /\ ButtonsUsable(t)
    /\ Press(h, "clan_cancel", "write", actor, t, 0, NULL, packages)
    /\ reply' = "none"
    /\ UNCHANGED <<clans_config, players, packages, messages, final, issued, quota, world>>

CancelCheck(h) ==
    /\ handlers[h].op = "clan_cancel" /\ handlers[h].pc = "write"
    /\ LET t == handlers[h].token IN
         \/ t \notin DOMAIN handlers[h].packages /\ Finish(h, "error")
         \/ /\ t \in DOMAIN handlers[h].packages
            /\ ~IsOwner(handlers[h].packages[t], handlers[h].actor)
            /\ Finish(h, "forbidden")
    /\ UNCHANGED <<clans_config, players, packages, messages, final, issued, quota, world>>

\* mutant: cancel resets only the first row
ResetRowsFirstOnly(msg) == {i \in DOMAIN msg.rows : i = 1 /\ msg.rows[i].placeholder # "not_eligible"}

\* lines 309-311: the rows whose select menu is reset: every menu whose
\* placeholder does not end with "not eligible"
ResetRows(msg) == {i \in DOMAIN msg.rows : msg.rows[i].placeholder # "not_eligible"}

\* mutant: the placeholder is renewed but the menu stays disabled
RelabelledRow(row) == [row EXCEPT !.placeholder = "select"]

\* lines 315-316: component.disabled = False and the placeholder that
\* invites to select
ReenabledRow(row) == [row EXCEPT !.disabled = FALSE, !.placeholder = "select"]

\* lines 309-325: enables the menus again, sets the mapping of their
\* accounts (account_tags[count]) to None, writes the registry, edits the
\* message
CancelWrite(h) ==
    /\ handlers[h].op = "clan_cancel" /\ handlers[h].pc = "write"
    /\ LET t        == handlers[h].token
           snapshot == handlers[h].packages
           msg      == handlers[h].components
       IN  /\ t \in DOMAIN snapshot
           /\ IsOwner(snapshot[t], handlers[h].actor)
           /\ LET reset   == {snapshot[t].account_tags[i] : i \in ResetRows(msg)}
                  package == [snapshot[t] EXCEPT !.acc_clan =
                                 [a \in DOMAIN @ \cup reset |->
                                    IF a \in reset THEN NULL ELSE @[a]]]
              IN  /\ packages' = WriteBack(snapshot, t, package)
                  /\ messages' = [messages EXCEPT ![t] =
                         [msg EXCEPT !.rows = [i \in DOMAIN msg.rows |->
                              IF i \in ResetRows(msg)
                              THEN ReenabledRow(msg.rows[i])
                              ELSE msg.rows[i]]]]
    /\ Finish(h, "ok")
    /\ UNCHANGED <<clans_config, players, final, issued, quota, world>>

(***************************************************************************)
(* The session specification: a fixed registry of clans and fixed players, *)
(* every interleaving of the session handlers.                             *)
(***************************************************************************)
Player(th, hero_sum, hero_max_sum, other_sum, other_max_sum) ==
    [town_hall |-> th, hero_sum |-> hero_sum, hero_max_sum |-> hero_max_sum,
     other_sum |-> other_sum, other_max_sum |-> other_max_sum, name |-> <<>>]

Clan(recruitment, type, clan_req, max_th, checks) ==
    [recruitment |-> recruitment, type |-> type, requirement |-> Requirement(clan_req),
     maximum_possibleTH |-> max_th, checks |-> checks]

SessionClans ==
    ("#C1" :> Clan(TRUE, "Competitive", 12, Absent, <<>>)) @@
    ("#C2" :> Clan(TRUE, "CWL", 13, Absent, <<[name |-> "hero_sum", min_value |-> 50]>>))

SessionPlayers ==
    ("#P1" :> Player(13, 60, 75, 100, 120)) @@
    ("#P2" :> Player(12, 40, 65, 90, 110)) @@
    ("#P3" :> Player(11, 20, 50, 60, 100))

Init ==
    /\ clans_config = SessionClans
    /\ players = SessionPlayers
    /\ packages = <<>>
    /\ messages = [t \in Tokens |-> NoMsg]
    /\ handlers = [h \in Handlers |-> Idle]
    /\ reply = "none"
    /\ final = [t \in Tokens |-> NoFinal]
    /\ issued = 0
    /\ quota = MaxSessions
    /\ WorldIdle

Next ==
    \E h \in Handlers :
        \/ \E member \in Applicants, account \in ApplySeeds : ApplyClanGenerate(h, member, account)
        \/ ApplyClanSave(h)
        \/ \E user \in Applicants, tags \in SeedLists : ClanSelectSend(h, user, tags)
        \/ ClanSelectSave(h)
        \/ \E actor \in Users, t \in Tokens, r \in 1..2, c \in ClanTags :
               SelectionPress(h, actor, t, r, c)
        \/ SelectionRead(h)
        \/ SelectionWrite(h)
        \/ SelectionTimeout1(h)
        \/ SelectionTimeout2(h)
        \/ \E actor \in Users, t \in Tokens : ConfirmPress(h, actor, t)
        \/ ConfirmRead(h)
        \/ ConfirmSummary(h)
        \/ \E actor \in Users, t \in Tokens : CancelPress(h, actor, t)
        \/ CancelCheck(h)
        \/ CancelWrite(h)

Spec == Init /\ [][Next]_vars

(***************************************************************************)
(* Vocabulary of the properties.                                           *)
(***************************************************************************)
\* slot h takes a step of its own (a press by somebody else can only end
\* the wait of a waiting selection handler)
Steps(h) == handlers'[h] # handlers[h] /\ \A w \in Handlers \ {h} : handlers'[w] = handlers[w]

\* slot h is about to run the owner test of callback `op` for a user who
\* is not the owner of the session its token names
StrangerCall(h) ==
    LET t == handlers[h].token IN
    \/ /\ handlers[h].op \in {"clan_selection", "clan_confirm"}
       /\ handlers[h].pc = "deferred"
       /\ t \in DOMAIN packages
       /\ packages[t].user # handlers[h].actor
    \/ /\ handlers[h].op = "clan_cancel"
       /\ handlers[h].pc = "write"
       /\ t \in DOMAIN handlers[h].packages
       /\ handlers[h].packages[t].user # handlers[h].actor

\* a user who does not own token t's session has just pressed one of its
\* components: slot h holds the new callback
StrangerPress(h) ==
    /\ handlers[h] = Idle
    /\ handlers'[h].op \in {"clan_selection", "clan_confirm", "clan_cancel"}
    /\ handlers'[h].token \in DOMAIN packages
    /\ packages[handlers'[h].token].user # handlers'[h].actor

\* C1: whenever a user who is not the owner of a session invokes select,
\* cancel or confirm on it, the press changes nothing but the new callback
\* (it does not even end the owner's pending automatic confirmation), and
\* the callback ends at its owner test with the permission error, leaving
\* the registry, the selection messages and the finalization side effects
\* (summary, access, rename) as they were.
C1_StrangerRejected ==
    [][\A h \in Handlers :
         /\ StrangerPress(h) =>
               /\ \A w \in Handlers \ {h} : handlers'[w] = handlers[w]
               /\ UNCHANGED <<packages, messages, final>>
         /\ (StrangerCall(h) /\ handlers'[h] # handlers[h]) =>
               /\ reply' = "forbidden"
               /\ handlers'[h] = Idle
               /\ UNCHANGED <<packages, messages, final>>]_vars

\* C1 witness: a stranger was just rejected on a session that holds a selection
C1_Witness ==
    /\ reply = "forbidden"
    /\ \E t \in DOMAIN packages : AnySelected(packages[t].acc_clan)

\* slot h is about to run clan_confirm's tests for the owner of its session
\* after a press of the Confirm button
OwnerConfirm(h) ==
    /\ handlers[h].op = "clan_confirm" /\ handlers[h].pc = "deferred"
    /\ handlers[h].token \in DOMAIN packages
    /\ packages[handlers[h].token].user = handlers[h].actor

\* C4: a confirm by the owner ends with the validation error, with no
\* summary and nothing changed, exactly when no account of the session has
\* a selection; otherwise it disables the components and goes on to grant
\* access for every selected clan and to post the summary, whether or not
\* other accounts are unset.
C4_ConfirmValidation ==
    [][\A h \in Handlers :
         /\ (OwnerConfirm(h) /\ handlers'[h] # handlers[h]) =>
              LET acc_clan == packages[handlers[h].token].acc_clan IN
              IF \A a \in DOMAIN acc_clan : acc_clan[a] = NULL
              THEN /\ reply' = "validation"
                   /\ handlers'[h] = Idle
                   /\ UNCHANGED <<packages, messages, final>>
              ELSE /\ reply' # "validation"
                   /\ handlers'[h].pc = "summary"
                   /\ handlers'[h].packages = packages
         /\ (handlers[h].pc = "summary" /\ handlers[h].op = "clan_confirm"
               /\ handlers'[h] # handlers[h]) =>
              LET t == handlers[h].token
                  acc_clan == handlers[h].packages[t].acc_clan
              IN  /\ final'[t].summaries > 0
                  /\ final'[t].summaries >= final[t].summaries
                  /\ final[t].summaries < MaxSummaries => final'[t].summaries = final[t].summaries + 1
                  /\ \A a \in DOMAIN acc_clan :
                        acc_clan[a] # NULL => acc_clan[a] \in final'[t].access]_vars

\* C4 witness: a session was finalized while one of its accounts is unset
C4_Witness ==
    \E t \in DOMAIN packages :
        /\ final[t].summaries = 1
        /\ final[t].access # {}
        /\ AnyUnset(packages[t].acc_clan)
        /\ reply = "thanks"

\* slot h is about to do the writes of clan_cancel for the owner
OwnerCancel(h) ==
    /\ handlers[h].op = "clan_cancel" /\ handlers[h].pc = "write"
    /\ handlers[h].token \in DOMAIN handlers[h].packages
    /\ handlers[h].packages[handlers[h].token].user = handlers[h].actor

AllNull(package) == \A a \in DOMAIN package.acc_clan : package.acc_clan[a] = NULL

\* C5: a cancel by the owner leaves every account of the session mapped to
\* null and reports success; a cancel on a session that is already all-null
\* (a second cancel in a row) leaves the stored session exactly as it was,
\* again with success.
C5_CancelIdempotent ==
    [][\A h \in Handlers :
         (OwnerCancel(h) /\ handlers'[h] # handlers[h]) =>
            LET t == handlers[h].token IN
            /\ t \in DOMAIN packages'
            /\ AllNull(packages'[t])
            /\ reply' = "ok"
            /\ (t \in DOMAIN packages /\ AllNull(packages[t])) => packages'[t] = packages[t]]_vars

\* C5 witness: a session with a selection has been cancelled (it is all-null
\* and its menus invite to select again) and a second cancel by the owner,
\* pressed while the selection still showed, is about to write
C5_Witness ==
    \E h \in Handlers :
        /\ OwnerCancel(h)
        /\ handlers[h].token \in DOMAIN packages
        /\ AllNull(packages[handlers[h].token])
        /\ messages[handlers[h].token].rows[1].placeholder = "select"
        /\ handlers[h].components.rows[1].placeholder = "chosen"

InitFlows ==
    /\ clans_config = SessionClans
    /\ players = SessionPlayers
    /\ packages = <<>>
    /\ messages = [t \in Tokens |-> NoMsg]
    /\ handlers = [h \in Handlers |-> Idle]
    /\ reply = "none"
    /\ final = [t \in Tokens |-> NoFinal]
    /\ issued = 0
    /\ quota = MaxFlowSessions
    /\ WorldIdle

NextFlows ==
    \E h \in Handlers :
        \/ \E member \in Applicants, account \in ApplySeeds : ApplyClanGenerate(h, member, account)
        \/ ApplyClanSave(h)
        \/ \E user \in Applicants, tags \in SeedLists : ClanSelectSend(h, user, tags)
        \/ ClanSelectSave(h)
        \/ \E actor \in Applicants, t \in Tokens, r \in 1..2, c \in ClanTags :
               SelectionPress(h, actor, t, r, c)
        \/ SelectionRead(h)
        \/ SelectionWrite(h)

SpecFlows == InitFlows /\ [][NextFlows]_vars

\* the stored session of token t in registry p
Stored(p, t) == IF t \in DOMAIN p THEN <<p[t]>> ELSE <<>>

\* slot h is about to write the registry it read earlier
Writer(h) ==
    \/ handlers[h].op \in {"apply_clan", "clan_select"} /\ handlers[h].pc = "save"
    \/ handlers[h].op = "clan_selection" /\ handlers[h].pc = "write"
    \/ OwnerCancel(h)

\* C2: when a handler writes the registry after another handler has changed
\* a session since the first one read (the two overlap), the write puts
\* that session back to what the stale snapshot holds: the other handler's
\* new session or selection is gone, and the writer reports success.
C2_LostUpdate ==
    [][\A h \in Handlers :
         (Writer(h) /\ handlers'[h] # handlers[h]) =>
            /\ reply' = "ok"
            /\ \A t \in Tokens \ {handlers[h].token} :
                  Stored(packages, t) # Stored(handlers[h].packages, t)
                     => Stored(packages', t) = Stored(handlers[h].packages, t)]_vars

\* C2 witness: every flow has ended with success and shown its menu, and a
\* session is missing from the registry
C2_Witness ==
    /\ \A h \in Handlers : handlers[h] = Idle
    /\ reply = "ok"
    /\ issued = 2
    /\ \E t \in 1..2 : messages[t] # NoMsg /\ t \notin DOMAIN packages

\* C3 as claimed: a selection by the owner stores the clan under the
\* account and changes no other mapping of the registry, in that session or
\* any other, and no session appears or disappears
C3_SelectFrame ==
    [][\A h \in Handlers :
         (handlers[h].op = "clan_selection" /\ handlers[h].pc = "write"
            /\ handlers'[h] # handlers[h]) =>
            LET t == handlers[h].token
                a == handlers[h].components.rows[handlers[h].row].account
            IN  /\ t \in DOMAIN packages'
                /\ packages'[t].acc_clan[a] = handlers[h].clan
                /\ DOMAIN packages' = DOMAIN packages
                /\ \A t2 \in DOMAIN packages :
                      /\ packages'[t2].account_tags = packages[t2].account_tags
                      /\ packages'[t2].user = packages[t2].user
                      /\ DOMAIN packages'[t2].acc_clan = DOMAIN packages[t2].acc_clan
                      /\ \A a2 \in DOMAIN packages[t2].acc_clan :
                            (t2 # t \/ a2 # a) =>
                               packages'[t2].acc_clan[a2] = packages[t2].acc_clan[a2]]_vars

\* C7 as claimed: when the second 300 s pass without an interaction of the
\* owner, the automatic confirmation finalizes the session
C7_AutoConfirm ==
    [][\A h \in Handlers :
         (handlers[h].pc = "wait2" /\ Steps(h)) => handlers'[h].pc = "summary"]_vars

(***************************************************************************)
(* The eligibility specification: the applicant's flow run on every        *)
(* registry of at most MaxClans clans drawn from EligSettings and every    *)
(* player of EligPlayers.                                                  *)
(***************************************************************************)
\* the checks dicts of the drawn clans, in insertion order
EligChecks ==
    {<<>>,
     <<[name |-> "hero_sum", min_value |-> 50]>>,
     <<[name |-> "hero_sum", min_value |-> 50], [name |-> "hero_max", min_value |-> 80]>>,
     <<[name |-> "hero_max", min_value |-> 80], [name |-> "overall_max", min_value |-> 90]>>}

\* the settings of a drawn clan: TH13+, with no maximum_possibleTH, an empty
\* one or "13"
EligSettings ==
    {Clan(recruitment, type, 13, max_th, checks) :
        recruitment \in BOOLEAN, type \in {"Competitive", "FWA", "CWL"},
        max_th \in {Absent, Present(<<>>), Present(Str(13))}, checks \in EligChecks}

EligTags == <<"#C1", "#C2", "#C3", "#C4">>

EligConfigs ==
    UNION {[{EligTags[i] : i \in 1..n} -> EligSettings] : n \in 0..MaxClans}

EligPlayers ==
    {Player(th, hero_sum, hero_max_sum, 100, 120) :
        th \in {12, 13, 14}, hero_sum \in {40, 60}, hero_max_sum \in {0, 80}}

InitElig ==
    /\ clans_config \in EligConfigs
    /\ players \in [{"#P1"} -> EligPlayers]
    /\ packages = <<>>
    /\ messages = [t \in Tokens |-> NoMsg]
    /\ handlers = [h \in Handlers |-> Idle]
    /\ reply = "none"
    /\ final = [t \in Tokens |-> NoFinal]
    /\ issued = 0
    /\ quota = MaxSessions
    /\ WorldIdle

NextElig ==
    \E h \in Handlers :
        \/ \E member \in Applicants, account \in DOMAIN players :
               ApplyClanGenerate(h, member, account)
        \/ ApplyClanSave(h)

SpecElig == InitElig /\ [][NextElig]_vars

\* slot h holds an applicant's flow that has built its menu
Generated(h) == handlers[h].op = "apply_clan" /\ handlers[h].pc = "save"

\* the minimum tier a clan was registered with: the n of "TH{n}+"
MinTier(value) == CHOOSE n \in 0..99 : Requirement(n) = value.requirement

\* the clan defines a maximum tier
HasMaxTier(value) == value.maximum_possibleTH \notin {Absent, Present(<<>>)}

MaxTier(value) == CHOOSE n \in 0..99 : Present(Str(n)) = value.maximum_possibleTH

\* the clans a menu row offers all satisfy the settings for `player`
SettingsMet(options, player) ==
    \A c \in options :
        /\ c \in DOMAIN clans_config
        /\ clans_config[c].recruitment
        /\ clans_config[c].type \notin {"FWA", "CWL"}
        /\ player.town_hall >= MinTier(clans_config[c])
        /\ HasMaxTier(clans_config[c]) => player.town_hall <= MaxTier(clans_config[c])

\* C9: in the applicant's flow every clan offered to the account, in the
\* menu the flow builds and in the menu it shows, is open for recruitment,
\* is neither FWA nor CWL, has a minimum tier that the account's town hall
\* reaches and, when it defines a maximum tier, one that the town hall does
\* not exceed.
C9_OfferedMeetsSettings ==
    /\ \A h \in Handlers :
          Generated(h) =>
             LET row == handlers[h].components.rows[1]
             IN  SettingsMet(row.options, players[row.account])
    /\ \A t \in Tokens :
          \A r \in DOMAIN messages[t].rows :
             SettingsMet(messages[t].rows[r].options, players[messages[t].rows[r].account])

\* C9 witness: the menu shown offers a clan whose maximum tier the account
\* is exactly at, and not the other clan of the registry, which is open,
\* within reach and without checks, but league-only
C9_Witness ==
    /\ messages[1].rows # <<>>
    /\ messages[1].rows[1].options = {"#C1"}
    /\ players["#P1"].town_hall = 13
    /\ clans_config["#C1"].maximum_possibleTH = Present(Str(13))
    /\ "#C2" \in DOMAIN clans_config
    /\ clans_config["#C2"] = Clan(TRUE, "CWL", 13, Absent, <<>>)

\* the positions of the checks of `checks` that `player` fails
Failing(player, checks) ==
    {j \in DOMAIN checks : ~CLAN_CHECKS(checks[j].name, player, checks[j].min_value)}

\* the clan and account of the example: TH13+, no maximum tier, one check
\* hero_sum with minimum 50, account at tier 13
Example(value, player) ==
    /\ value = Clan(TRUE, "Competitive", 13, Absent, <<[name |-> "hero_sum", min_value |-> 50]>>)
    /\ player.town_hall = 13

\* C10: in the applicant's flow a clan is offered only if the account fails
\* none of the clan's checks; the checks of a clan are called in order up to
\* and including the first one that fails and none after it; the clans are
\* visited in the shuffled order and a clan that is not offered is followed
\* by the next clan of the list; the menu offers exactly the clans found
\* eligible.  In the example the account is offered the clan with hero sum
\* 60 and not with hero sum 40.
C10_AllChecksPass ==
    \A h \in Handlers :
       Generated(h) =>
          LET log          == handlers[h].log
              normal_clans == handlers[h].normal_clans
              row          == handlers[h].components.rows[1]
              player       == players[row.account]
          IN  /\ Len(log) <= Len(normal_clans)
              /\ \A i \in DOMAIN log :
                    LET value   == clans_config[log[i].key]
                        failing == Failing(player, value.checks)
                    IN  /\ log[i].key = normal_clans[i]
                        /\ log[i].offered => failing = {}
                        /\ log[i].offered <=> log[i].key \in row.options
                        /\ \/ log[i].ran = 0 /\ (log[i].offered => value.checks = <<>>)
                           \/ /\ failing = {}
                              /\ log[i].ran = Len(value.checks)
                              /\ log[i].offered
                           \/ /\ log[i].ran \in failing
                              /\ \A j \in failing : log[i].ran <= j
                              /\ ~log[i].offered
                        /\ (~log[i].offered /\ i < Len(normal_clans)) => i + 1 \in DOMAIN log
                        /\ Example(value, player) =>
                              (log[i].offered <=> player.hero_sum >= 50)
              /\ Cardinality(row.options) < ClanOptionCap => Len(log) = Len(normal_clans)

\* C10 witness: the first clan visited has two checks and the account fails
\* the first of them, the only one called; the second clan visited is the
\* clan of the example, offered to the account with hero sum 60
C10_Witness ==
    \E h \in Handlers :
        /\ Generated(h)
        /\ Len(handlers[h].log) = 2
        /\ Len(clans_config[handlers[h].log[1].key].checks) = 2
        /\ handlers[h].log[1].ran = 1
        /\ ~handlers[h].log[1].offered
        /\ Example(clans_config[handlers[h].log[2].key], players["#P1"])
        /\ players["#P1"].hero_sum = 60
        /\ handlers[h].log[2].offered
        /\ handlers[h].components.rows[1].options = {handlers[h].log[2].key}

\* the account of the example with hero sum 40 is not offered the clan
C10_WitnessRejected ==
    \E h \in Handlers :
        /\ Generated(h)
        /\ \E i \in DOMAIN handlers[h].log :
              /\ Example(clans_config[handlers[h].log[i].key], players["#P1"])
              /\ players["#P1"].hero_sum = 40
              /\ ~handlers[h].log[i].offered

(***************************************************************************)
(* Tickets (cogs/general/tickets.py, TicketManager.create_ticket).         *)
(*                                                                         *)
(* A member is [id, username].  A channel is a text channel of a category: *)
(* [parent_id, topic, name], topic an optional string, name a string.  The *)
(* separator of a ticket's name, the box-drawing bar of the code, is       *)
(* written "|" here.                                                       *)
(***************************************************************************)
Sep == "|"

LowerLetters ==
    {"a", "b", "c", "d", "e", "f", "g", "h", "i", "j", "k", "l", "m",
     "n", "o", "p", "q", "r", "s", "t", "u", "v", "w", "x", "y", "z"}

IsLowerLetter(c) == c \in LowerLetters

\* str.lower() on the characters the model's usernames are made of
ToLower(c) == CASE c = "A" -> "a" [] c = "B" -> "b" [] c = "O" -> "o" [] OTHER -> c

\* core/utils.py extract_alphabets: lower-cases, drops every character that
\* is not a-z (so the replacement of spaces that follows finds none)
extract_alphabets(input_string) ==
    SelectSeq([i \in DOMAIN input_string |-> ToLower(input_string[i])], IsLowerLetter)

\* positions of the separator in a name
SepAt(name) == {i \in DOMAIN name : name[i] = Sep}

\* tickets.py:112-114: name.split(Sep)[1] when the name holds the separator,
\* else the name
ChannelNamePart(name) ==
    IF SepAt(name) = {} THEN name
    ELSE LET first == CHOOSE i \in SepAt(name) : \A j \in SepAt(name) : i <= j
             later == {i \in SepAt(name) : i > first}
             stop  == IF later = {} THEN Len(name) + 1
                      ELSE CHOOSE i \in later : \A j \in later : i <= j
         IN  SubSeq(name, first + 1, stop - 1)

\* tickets.py:141 topic=f"Applicant ID: {member.id}"
ApplicantTopic(id) ==
    Present(<<"A", "p", "p", "l", "i", "c", "a", "n", "t", " ", "I", "D", ":", " ">> \o Str(id))

\* tickets.py:117-119: topic_id == int(member.id), topic_id being
\* extract_integer(topic) for a non-empty topic and None otherwise
TopicMatches(topic, id) ==
    /\ Truthy(topic)
    /\ \E i \in DOMAIN topic[1] : IsDigit(topic[1][i])
    /\ extract_integer(topic[1]) = id

\* mutant: the name of the channel is not compared
TicketOfByTopicOnly(channel, member) == TopicMatches(channel.topic, member.id)

\* tickets.py:119: the channel counts as an open ticket of the member
TicketOf(channel, member) ==
    \/ TopicMatches(channel.topic, member.id)
    \/ extract_alphabets(member.username) = ChannelNamePart(channel.name)

\* core/server_setup.py APPLY_DATA[type]["prefix"], one character each here
Prefix(ticket_type) == IF ticket_type = "clan" THEN <<"T">> ELSE <<"S">>

\* APPLY_DATA[type]["categories"] resolved through the guild's config, in
\* which every category is set
ResolvedCategories(ticket_type) ==
    IF ticket_type = "clan" THEN <<"CLAN_TICKETS", "AFTER_CWL">> ELSE <<"SUPPORT_TICKETS">>

TicketTypes == {"clan", "support"}

\* two members whose names normalise to the same letters, and a third
Members ==
    {[id |-> 11, username |-> <<"b", "o", "b">>],
     [id |-> 12, username |-> <<"B", "o", "b", "7">>],
     [id |-> 13, username |-> <<"a", "l">>]}

MemberOf(id) == CHOOSE m \in Members : m.id = id

\* tickets.py:136-151: the names create_channel can give the ticket: the
\* normalised name or, when Discord refuses it, a censored name
TicketNames(ticket_type, member) ==
    {Prefix(ticket_type) \o <<Sep>> \o extract_alphabets(member.username),
     Prefix(ticket_type) \o <<Sep>> \o <<"c", "e", "n", "s", "o", "r", "e", "d", "1">>}

Creators == 1..MaxCreators

FreeCreator(c) == creators[c] = NoCreator /\ \A w \in 1..(c - 1) : creators[w] # NoCreator

\* tickets.py:79-99: create_ticket is called for member and type; the
\* categories resolve
CreateTicketStart(c, member, ticket_type) ==
    /\ FreeCreator(c)
    /\ created < MaxChannels
    /\ creators' = [creators EXCEPT ![c] =
           [pc |-> "scan", member |-> member.id, ticket_type |-> ticket_type,
            next |-> 1, channel |-> 0, since |-> created]]
    /\ reply' = "none"
    /\ UNCHANGED <<channels, open_tickets, created, sessionState, beyondTickets>>

\* the channels of a category
ChannelsIn(category) == {ch \in DOMAIN channels : channels[ch].parent_id = category}

\* tickets.py:101-123: one category is fetched and its channels are looked
\* through: a ticket of the member ends the call with the refusal
CreateTicketScan(c) ==
    /\ creators[c].pc = "scan"
    /\ LET member     == MemberOf(creators[c].member)
           categories == ResolvedCategories(creators[c].ticket_type)
           category   == categories[creators[c].next]
       IN  IF \E ch \in ChannelsIn(category) : TicketOf(channels[ch], member)
           THEN /\ creators' = [creators EXCEPT ![c] = NoCreator]
                /\ reply' = "refused"
           ELSE /\ creators' = [creators EXCEPT ![c].next = @ + 1,
                                  ![c].pc = IF creators[c].next = Len(categories)
                                            THEN "create" ELSE "scan"]
                /\ reply' = "none"
    /\ UNCHANGED <<channels, open_tickets, created, sessionState, beyondTickets>>

\* tickets.py:125-151: the channel is created in the first resolved category
CreateTicketChannel(c) ==
    /\ creators[c].pc = "create"
    /\ LET member == MemberOf(creators[c].member)
           id     == created + 1
       IN  \E name \in TicketNames(creators[c].ticket_type, member) :
             /\ channels' = (id :> [parent_id |-> ResolvedCategories(creators[c].ticket_type)[1],
                                    topic     |-> ApplicantTopic(member.id),
                                    name      |-> name]) @@ channels
             /\ creators' = [creators EXCEPT ![c].pc = "register", ![c].channel = id]
    /\ created' = created + 1
    /\ reply' = "none"
    /\ UNCHANGED <<open_tickets, sessionState, beyondTickets>>

\* open_tickets.setdefault(str(member.id), []).append(int(channel.id))
Registered(tickets, member_id, channel) ==
    IF member_id \in DOMAIN tickets
    THEN [tickets EXCEPT ![member_id] = Append(@, channel)]
    ELSE (member_id :> <<channel>>) @@ tickets

\* tickets.py:153-168: the ticket is added to the registry, read and written
\* without an await in between
CreateTicketRegister(c) ==
    /\ creators[c].pc = "register"
    /\ open_tickets' = Registered(open_tickets, creators[c].member, creators[c].channel)
    /\ creators' = [creators EXCEPT ![c] = NoCreator]
    /\ reply' = "created"
    /\ UNCHANGED <<channels, created, sessionState, beyondTickets>>


(***************************************************************************)
(* The ticket specification: at most one ticket exists at the start, left  *)
(* by an earlier call in any of the shapes a ticket can have (renamed by   *)
(* clan_confirm, components.py:264, with the raw username; topic removed   *)
(* by the staff; moved to another category), and members ask for tickets.  *)
(***************************************************************************)
TicketCategories == {"CLAN_TICKETS", "AFTER_CWL", "SUPPORT_TICKETS", "STAFF_APPLY"}

ExistingTickets ==
    {[owner |-> owner.id,
      channel |-> [parent_id |-> category, topic |-> topic, name |-> name]] :
        owner \in Members, category \in TicketCategories,
        topic \in {Absent} \cup {ApplicantTopic(m.id) : m \in Members},
        name \in UNION {TicketNames("clan", m) \cup {Prefix("clan") \o <<Sep>> \o m.username} :
                          m \in Members}}

\* the shapes in which the ticket of `owner` can be found: the topic is the
\* owner's or gone, the name was made from the owner's name
OwnTickets ==
    {e \in ExistingTickets :
        /\ e.channel.topic \in {Absent, ApplicantTopic(e.owner)}
        /\ e.channel.name \in TicketNames("clan", MemberOf(e.owner))
                                 \cup {Prefix("clan") \o <<Sep>> \o MemberOf(e.owner).username}}

InitTickets ==
    /\ clans_config = SessionClans
    /\ players = SessionPlayers
    /\ packages = <<>>
    /\ messages = [t \in Tokens |-> NoMsg]
    /\ handlers = [h \in Handlers |-> Idle]
    /\ reply = "none"
    /\ final = [t \in Tokens |-> NoFinal]
    /\ issued = 0
    /\ quota = 0
    /\ creators = [c \in Creators |-> NoCreator]
    /\ TimersIdle /\ TrialsIdle /\ GcIdle /\ LaterIdle
    /\ \/ channels = <<>> /\ open_tickets = <<>> /\ created = 0
       \/ \E e \in OwnTickets :
            /\ channels = (1 :> e.channel)
            /\ open_tickets = (e.owner :> <<1>>)
            /\ created = 1

NextTickets ==
    \E c \in Creators :
        \/ \E member \in Members, ticket_type \in TicketTypes :
               CreateTicketStart(c, member, ticket_type)
        \/ CreateTicketScan(c)
        \/ CreateTicketChannel(c)
        \/ CreateTicketRegister(c)

SpecTickets == InitTickets /\ [][NextTickets]_vars

\* the channel is an open ticket of the member as the claim describes it:
\* the topic encodes the member's id, or the part of the name after the
\* separator is the member's normalised name
OpenTicketOf(channel, member) ==
    \/ channel.topic = ApplicantTopic(member.id)
    \/ \E ticket_type \in TicketTypes :
          channel.name = Prefix(ticket_type) \o <<Sep>> \o extract_alphabets(member.username)

\* C11: a create that looks through a category holding an open ticket of
\* the owner (by the id in the topic or by the normalised name) ends there
\* with the refusal and changes neither the channels nor the open-ticket
\* registry; a create reaches the creation of the channel only after it has
\* looked through every resolved category, so that no ticket of the owner
\* that was there when the call started is in any of them.
C11_CreateRefuses ==
    [][\A c \in Creators :
         LET member     == MemberOf(creators[c].member)
             categories == ResolvedCategories(creators[c].ticket_type)
         IN  /\ (creators[c].pc = "scan" /\ creators'[c] # creators[c]
                   /\ \E ch \in ChannelsIn(categories[creators[c].next]) :
                         OpenTicketOf(channels[ch], member))
                  => /\ reply' = "refused"
                     /\ creators'[c] = NoCreator
                     /\ UNCHANGED <<channels, open_tickets, created>>
             /\ (creators[c].pc = "create" /\ creators'[c] # creators[c])
                  => \A ch \in DOMAIN channels :
                        (/\ ch <= creators[c].since
                         /\ \E k \in DOMAIN categories : channels[ch].parent_id = categories[k])
                           => ~OpenTicketOf(channels[ch], member)]_vars

\* C11 witness: a create was refused over a ticket whose topic is gone and
\* whose name is the normalised name of one member only
C11_Witness ==
    /\ reply = "refused"
    /\ created = 1
    /\ channels[1].topic = Absent
    /\ channels[1].name = Prefix("clan") \o <<Sep>> \o <<"a", "l">>
    /\ channels[1].parent_id = "AFTER_CWL"



(***************************************************************************)
(* Deletion timers (tickets.py).  An entry of ticket_data.json is          *)
(* [date, message]: the time the ticket is to be deleted at and the id of  *)
(* the warning posted in the channel.  Every handler loads the whole file  *)
(* into a dict, changes the dict and dumps it: the file after a write is   *)
(* the writer's dict, whatever was written since the writer read.          *)
(***************************************************************************)
\* del d[key], for a key that may be missing
Del(d, key) == [k \in DOMAIN d \ {key} |-> d[k]]

\* the hours_inactive a timer is armed with, in ticks of the clock
Delays == {1, 2}

Listeners == 1..MaxListeners

FreeListener(l) == listeners[l] = NoListener /\ \A w \in 1..(l - 1) : listeners[w] # NoListener

\* tickets.py:536-585 ticket_delete with hours_inactive, run in the ticket
\* of key: the warning is posted, then the entry is set in the file, read
\* and written without an await in between
Arm(key, hours_inactive) ==
    /\ key[1] \in DOMAIN channels
    /\ warned < MaxWarnings
    /\ warned' = warned + 1
    /\ warnings' = warnings \cup {warned + 1}
    /\ ticket_data' = Put(ticket_data, key, [date |-> now + hours_inactive, message |-> warned + 1])
    /\ timer_status' = [timer_status EXCEPT ![key] = "armed"]
    /\ UNCHANGED <<now, sweep, listeners, dms, swept, channels, pending, beyondTimers>>

\* tickets.py:625-653 delete_cancel_button on the warning `message`: every
\* entry of that warning is removed, read and written without an await in
\* between, then the warning is deleted
CancelButton(message) ==
    /\ message \in warnings
    /\ LET kept == {k \in DOMAIN ticket_data : ticket_data[k].message # message}
       IN  /\ ticket_data' = [k \in kept |-> ticket_data[k]]
           /\ timer_status' = [k \in TimerKeys |->
                  IF k \in DOMAIN ticket_data \ kept THEN "cancelled" ELSE timer_status[k]]
    /\ warnings' = warnings \ {message}
    /\ UNCHANGED <<now, sweep, listeners, warned, dms, swept, channels, pending, beyondTimers>>

\* tickets.py:654-670 on_message_create for a message of the member of key
\* in the channel of key: the file is read, and with an entry under the key
\* the listener goes on to fetch the warning
MessageRead(l, key) ==
    /\ FreeListener(l)
    /\ key[1] \in DOMAIN channels
    /\ key \in DOMAIN ticket_data
    /\ listeners' = [listeners EXCEPT ![l] =
           [pc |-> "resume", key |-> key, ticket_data |-> ticket_data]]
    /\ UNCHANGED <<ticket_data, now, sweep, warned, warnings, dms, swept, timer_status,
                   channels, pending, beyondTimers>>

\* tickets.py:671-682: the warning is fetched and deleted and the ticket is
\* told to be resumed (a warning or a channel that is gone raises NotFound
\* and ends the listener); then the key is deleted from the dict read at
\* the start and the dict is dumped
MessageWrite(l) ==
    /\ listeners[l].pc = "resume"
    /\ LET key   == listeners[l].key
           local == listeners[l].ticket_data
       IN  IF key[1] \in DOMAIN channels /\ local[key].message \in warnings
           THEN /\ warnings' = warnings \ {local[key].message}
                /\ ticket_data' = Del(local, key)
                /\ timer_status' = [timer_status EXCEPT ![key] = "disarmed"]
           ELSE UNCHANGED <<warnings, ticket_data, timer_status>>
    /\ listeners' = [listeners EXCEPT ![l] = NoListener]
    /\ UNCHANGED <<now, sweep, warned, dms, swept, channels, pending, beyondTimers>>

\* tickets.py:448-452: the entry's date has come
Elapsed(value, t) == ~(value.date > t)

\* tickets.py:422-452 auto_delete: the file is read; the loop goes over a
\* copy of the dict and passes the entries whose date is still to come, up
\* to the first fetch_channel.  Without an elapsed entry nothing is written.
SweepStart ==
    /\ sweep.pc = "idle"
    /\ LET IsDue(k) == Elapsed(ticket_data[k], now)
           due      == SelectSeq(DictOrder(ticket_data), IsDue)
       IN  /\ due # <<>>
           /\ sweep' = [pc |-> "fetch", ticket_data |-> ticket_data, now |-> now,
                        todo |-> due, data_changed |-> FALSE]
    /\ UNCHANGED <<ticket_data, now, listeners, warned, warnings, dms, swept, timer_status,
                   channels, pending, beyondTimers>>

\* tickets.py:489-499: the key is deleted from the sweep's dict and the loop
\* goes on to the next elapsed entry; after the last one the dict is dumped
SweepDone(key) ==
    LET local == Del(sweep.ticket_data, key)
    IN  IF Len(sweep.todo) = 1
        THEN /\ ticket_data' = local
             /\ sweep' = NoSweep
        ELSE /\ sweep' = [sweep EXCEPT !.pc = "fetch", !.ticket_data = local,
                                       !.todo = Tail(@), !.data_changed = TRUE]
             /\ UNCHANGED ticket_data

\* tickets.py:453-462: fetch_channel returns; a channel that is gone ends
\* the entry
SweepFetch ==
    /\ sweep.pc = "fetch"
    /\ IF Head(sweep.todo)[1] \in DOMAIN channels
       THEN /\ sweep' = [sweep EXCEPT !.pc = "delete"]
            /\ UNCHANGED ticket_data
       ELSE SweepDone(Head(sweep.todo))
    /\ UNCHANGED <<now, listeners, warned, warnings, dms, swept, timer_status,
                   channels, pending, beyondTimers>>

\* tickets.py:464-469: the channel is deleted (NotFound is passed over)
SweepDelete ==
    /\ sweep.pc = "delete"
    /\ LET channel == Head(sweep.todo)[1]
       IN  /\ channels' = Del(channels, channel)
           /\ swept' = IF channel \in DOMAIN channels THEN swept \cup {channel} ELSE swept
           /\ warnings' = warnings \ {ticket_data[k].message :
                                        k \in {q \in DOMAIN ticket_data : q[1] = channel}}
           /\ pending' = IF channel \in DOMAIN channels
                         THEN pending \cup {<<"channel", channel>>} ELSE pending
    /\ sweep' = [sweep EXCEPT !.pc = "notify"]
    /\ UNCHANGED <<ticket_data, now, listeners, warned, dms, timer_status, beyondTimers>>

\* tickets.py:471-491: the member is sent the direct message and the entry
\* is done
SweepNotify ==
    /\ sweep.pc = "notify"
    /\ dms' = dms \cup {Head(sweep.todo)[2]}
    /\ SweepDone(Head(sweep.todo))
    /\ UNCHANGED <<now, listeners, warned, warnings, swept, timer_status,
                   channels, pending, beyondTimers>>

\* a tick of the clock
Tick ==
    /\ now < MaxTime
    /\ now' = now + 1
    /\ UNCHANGED <<ticket_data, sweep, listeners, warned, warnings, dms, swept,
                   timer_status, channels, pending, beyondTimers>>

\* a ticket of the member, as create_ticket leaves it
TicketChannel(member) ==
    [parent_id |-> "CLAN_TICKETS", topic |-> ApplicantTopic(member.id),
     name |-> Prefix("clan") \o <<Sep>> \o extract_alphabets(member.username)]

(***************************************************************************)
(* The timer specification: two tickets are open; the staff arms and       *)
(* cancels timers, the owners post messages, the sweep runs.               *)
(***************************************************************************)
InitTimers ==
    /\ clans_config = SessionClans
    /\ players = SessionPlayers
    /\ packages = <<>>
    /\ messages = [t \in Tokens |-> NoMsg]
    /\ handlers = [h \in Handlers |-> Idle]
    /\ reply = "none"
    /\ final = [t \in Tokens |-> NoFinal]
    /\ issued = 0
    /\ quota = 0
    /\ channels = [ch \in {k[1] : k \in TimerKeys} |->
                      TicketChannel(MemberOf((CHOOSE k \in TimerKeys : k[1] = ch)[2]))]
    /\ open_tickets = [m \in {k[2] : k \in TimerKeys} |->
                         <<(CHOOSE k \in TimerKeys : k[2] = m)[1]>>]
    /\ creators = [c \in Creators |-> NoCreator]
    /\ created = Cardinality(TimerKeys)
    /\ TimersIdle /\ TrialsIdle /\ GcIdle /\ LaterIdle

NextTimers ==
    \/ \E key \in TimerKeys, hours_inactive \in Delays : Arm(key, hours_inactive)
    \/ \E message \in 1..MaxWarnings : CancelButton(message)
    \/ \E l \in Listeners, key \in TimerKeys : MessageRead(l, key)
    \/ \E l \in Listeners : MessageWrite(l)
    \/ SweepStart
    \/ SweepFetch
    \/ SweepDelete
    \/ SweepNotify
    \/ Tick

SpecTimers == InitTimers /\ [][NextTimers]_vars

\* C12: once the owner's message has disarmed a timer, its entry is out of
\* the scheduled-deletion registry and the sweep has not deleted the
\* channel, until a new timer is armed, whatever sweep or listener was
\* running when the message came.
C12_DisarmStays ==
    \A key \in TimerKeys :
        timer_status[key] = "disarmed" =>
            /\ key \notin DOMAIN ticket_data
            /\ key[1] \notin swept


\* C13: a timer that was armed and neither disarmed nor cancelled is in the
\* scheduled-deletion registry until the sweep has deleted its ticket: the
\* sweep deletes the tickets whose elapsed entries it reads there, so that
\* without the entry the ticket is never deleted and its owner never told.
C13_ArmedStaysScheduled ==
    \A key \in TimerKeys :
        (timer_status[key] = "armed" /\ key[1] \notin swept) => key \in DOMAIN ticket_data



(***************************************************************************)
(* Trial events (trials.py, staff.py, tasks.py auto_trials).  An event of  *)
(* trial_events.json is [date, action] with the action "end", or           *)
(* [date, action, days] with the action "start" (its "type", the name of   *)
(* the staff position, is carried along unchanged and left out).  The      *)
(* clock counts days here.                                                 *)
(***************************************************************************)
\* the days a start modal is answered with: the second one passes
\* trials.py:83 (3 to 14)
StartDays == {2, 3}

\* the answers to the delay modal: the delay (1 to 30, trials.py:185) and
\* the trial_duration, which nothing validates
DelayDays == {1}
TrialDurations == {0, 1}

\* trials.py:62-113 trial_start_modal answered with days in the ticket of
\* key (staff.py:363-413 staff_trial_start writes the same event): the end
\* event is set in the file, read and written without an await in between
TrialStartModal(key, days) ==
    /\ key[1] \in DOMAIN channels
    /\ ~(days < 3 \/ days > 14)
    /\ trial_events' = Put(trial_events, key, [date |-> now + days, action |-> "end"])
    /\ UNCHANGED <<now, trials, announced, channels, beyondTrials>>

\* trials.py:183-214 trial_delay_modal: the start event with the planned
\* duration
TrialDelayModal(key, days, trial_duration) ==
    /\ key[1] \in DOMAIN channels
    /\ ~(days < 1 \/ days > 30)
    /\ trial_events' = Put(trial_events, key,
           [date |-> now + days, action |-> "start", days |-> trial_duration])
    /\ UNCHANGED <<now, trials, announced, channels, beyondTrials>>

\* staff.py:274-340 staff_trial_end in the ticket of key: the event is
\* removed, then the end of the trial is announced
StaffTrialEnd(key) ==
    /\ key[1] \in DOMAIN channels
    /\ trial_events' = Del(trial_events, key)
    /\ announced' = announced \cup {<<key, "end">>}
    /\ UNCHANGED <<now, trials, channels, beyondTrials>>

\* tasks.py:232-253 auto_trials: the file is read; the loop goes over a
\* copy of the dict and passes the events whose date is still to come, up
\* to the first fetch_channel.  (Without an elapsed event the dict is
\* dumped at once as it was read.)
TrialsStart ==
    /\ trials.pc = "idle"
    /\ LET IsDue(k) == Elapsed(trial_events[k], now)
           due      == SelectSeq(DictOrder(trial_events), IsDue)
       IN  /\ due # <<>>
           /\ trials' = [pc |-> "fetch", trial_events |-> trial_events, copy |-> trial_events,
                         now |-> now, todo |-> due]
    /\ UNCHANGED <<trial_events, now, announced, channels, beyondTrials>>

\* tasks.py:244-253, 323-324: the loop goes on to the next elapsed event;
\* after the last one the sweep's dict is dumped
TrialsDone(local) ==
    IF Len(trials.todo) = 1
    THEN /\ trial_events' = local
         /\ trials' = NoTrials
    ELSE /\ trials' = [trials EXCEPT !.pc = "fetch", !.trial_events = local, !.todo = Tail(@)]
         /\ UNCHANGED trial_events

\* tasks.py:255-303: fetch_channel and fetch_user return.  With the channel
\* gone the event is deleted from the sweep's dict; an end event is deleted
\* from it, a start event is replaced in it by the end event dated now plus
\* the stored days, and the announcement is sent
TrialsFetch ==
    /\ trials.pc = "fetch"
    /\ LET key   == Head(trials.todo)
           value == trials.copy[key]
       IN  IF key[1] \notin DOMAIN channels
           THEN TrialsDone(Del(trials.trial_events, key))
           ELSE /\ trials' = [trials EXCEPT !.pc = "send", !.trial_events =
                      IF value.action = "end" THEN Del(@, key)
                      ELSE Put(@, key, [date |-> now + value.days, action |-> "end"])]
                /\ UNCHANGED trial_events
    /\ UNCHANGED <<now, announced, channels, beyondTrials>>

\* tasks.py:321: the topic channel.edit gives the ticket of a started trial
TrialTopic(id) == Present(ApplicantTopic(id)[1] \o <<"\n", "E", "n", "d", "s">>)

\* tasks.py:289-321: channel.send returns (for a start event the message is
\* pinned and the channel moved to the trials category as well).  ok: the
\* calls succeed; an HTTP error is caught nowhere and ends the sweep before
\* its dump, and so does a channel that is gone.
TrialsSend(ok) ==
    /\ trials.pc = "send"
    /\ LET key   == Head(trials.todo)
           value == trials.copy[key]
       IN  IF ok /\ key[1] \in DOMAIN channels
           THEN /\ announced' = announced \cup {<<key, value.action>>}
                /\ channels' = IF value.action = "start"
                               THEN [channels EXCEPT ![key[1]].parent_id = "STAFF_TRIALS",
                                                     ![key[1]].topic = TrialTopic(key[2])]
                               ELSE channels
                /\ TrialsDone(trials.trial_events)
           ELSE /\ trials' = NoTrials
                /\ UNCHANGED <<trial_events, announced, channels>>
    /\ UNCHANGED <<now, beyondTrials>>

\* a tick of the clock of the trial events
TrialTick ==
    /\ now < MaxTrialTime
    /\ now' = now + 1
    /\ UNCHANGED <<trial_events, trials, announced, channels, beyondTrials>>


(***************************************************************************)
(* Deletion events (events.py) and the daily cleanup (tasks.py).           *)
(***************************************************************************)
\* value.get(field): None, 0 here, for a record without the field
Get(value, field) == IF field \in DOMAIN value THEN value[field] ELSE 0

\* the keys of d, in the order of the dict, whose value has id under field
KeysWith(d, field, id) ==
    LET Has(k) == Get(d[k], field) = id
    IN  SelectSeq(DictOrder(d), Has)

\* mutant: only the first session of the channel is deleted
WithoutFirstOfChannel(p, channel) ==
    LET keys == KeysWith(p, "channel_id", channel)
    IN  IF keys = <<>> THEN p ELSE Del(p, keys[1])

\* events.py:128-131: every session of the channel is deleted
WithoutChannel(p, channel) ==
    [t \in DOMAIN p \ {k \in DOMAIN p : Get(p[k], "channel_id") = channel} |-> p[t]]

\* events.py:143-149: the channel is removed from the list of the first
\* member who has it, and the member with an empty list from the registry
Unlinked(tickets, channel) ==
    LET owners == SelectSeq(DictOrder(tickets),
                            LAMBDA m : \E i \in DOMAIN tickets[m] : tickets[m][i] = channel)
    IN  IF owners = <<>> THEN tickets
        ELSE LET m     == owners[1]
                 first == CHOOSE i \in DOMAIN tickets[m] :
                             /\ tickets[m][i] = channel
                             /\ \A j \in 1..(i - 1) : tickets[m][j] # channel
                 rest  == SubSeq(tickets[m], 1, first - 1)
                             \o SubSeq(tickets[m], first + 1, Len(tickets[m]))
             IN  IF rest = <<>> THEN Del(tickets, m) ELSE [tickets EXCEPT ![m] = rest]

\* events.py:162-169: the first key of the channel is deleted
WithoutFirstKey(events, channel) ==
    LET keys == SelectSeq(DictOrder(events), LAMBDA k : k[1] = channel)
    IN  IF keys = <<>> THEN events ELSE Del(events, keys[1])

\* the warnings and selection messages in the channel go with it
WarningsIn(channel) ==
    {ticket_data[k].message : k \in {q \in DOMAIN ticket_data : q[1] = channel}}

PostedIn(channel) ==
    {Get(packages[t], "message_id") :
        t \in {k \in DOMAIN packages : Get(packages[k], "channel_id") = channel}}

\* tickets.py:587-618 ticket_delete, confirmed: the channel is deleted
DeleteChannel(channel) ==
    /\ channel \in DOMAIN channels
    /\ channels' = Del(channels, channel)
    /\ warnings' = warnings \ WarningsIn(channel)
    /\ posted' = posted \ PostedIn(channel)
    /\ pending' = pending \cup {<<"channel", channel>>}
    /\ UNCHANGED <<packages, open_tickets, ticket_data, trial_events, ticket_events,
                   handled, cleaner, beyondGc>>

\* a selection message is deleted by a member of the staff
DeleteMessage(message) ==
    /\ message \in posted
    /\ posted' = posted \ {message}
    /\ pending' = pending \cup {<<"message", message>>}
    /\ UNCHANGED <<packages, open_tickets, ticket_data, trial_events, ticket_events,
                   handled, cleaner, channels, warnings, beyondGc>>

\* events.py:82-107 on_message_delete: the first session of the message is
\* deleted from the file
on_message_delete(message) ==
    /\ <<"message", message>> \in pending
    /\ LET keys == KeysWith(packages, "message_id", message)
       IN  packages' = IF keys = <<>> THEN packages ELSE Del(packages, keys[1])
    /\ pending' = pending \ {<<"message", message>>}
    /\ handled' = handled \cup {<<"message", message>>}
    /\ UNCHANGED <<open_tickets, ticket_data, trial_events, ticket_events, posted,
                   cleaner, channels, warnings, beyondGc>>

\* events.py:109-169 on_channel_delete: the sessions of the channel, its
\* entry in the open tickets and its key in ticket_events.json are deleted
on_channel_delete(channel) ==
    /\ <<"channel", channel>> \in pending
    /\ packages' = WithoutChannel(packages, channel)
    /\ open_tickets' = Unlinked(open_tickets, channel)
    /\ ticket_events' = WithoutFirstKey(ticket_events, channel)
    /\ pending' = pending \ {<<"channel", channel>>}
    /\ handled' = handled \cup {<<"channel", channel>>}
    /\ UNCHANGED <<ticket_data, trial_events, posted, cleaner, channels, warnings, beyondGc>>

\* tasks.py:58-96 cleanup_data_files, clean_packages_json: the daily cleanup
\* starts; packages.json is read and the channel of each record that names
\* one is fetched
CleanPackagesRead ==
    /\ cleaner.pc = "idle"
    /\ cleaner' = [NoCleaner EXCEPT !.pc = "packages", !.packages = packages]
    /\ UNCHANGED <<packages, open_tickets, ticket_data, trial_events, ticket_events,
                   posted, pending, handled, channels, warnings, beyondGc>>

\* tasks.py:89-92: a record with no channel_id, or a false one, is skipped
NamesChannel(data) == "channel_id" \in DOMAIN data /\ data.channel_id # 0

\* tasks.py:94-112: the fetches return; the records whose channel is gone
\* are deleted from the dict read at the start, which is dumped if any was
CleanPackagesWrite ==
    /\ cleaner.pc = "packages"
    /\ LET local == cleaner.packages
           tokens_to_delete == {t \in DOMAIN local :
                                   /\ NamesChannel(local[t])
                                   /\ local[t].channel_id \notin DOMAIN channels}
       IN  packages' = IF tokens_to_delete = {} THEN packages
                       ELSE [t \in DOMAIN local \ tokens_to_delete |-> local[t]]
    /\ cleaner' = [NoCleaner EXCEPT !.pc = "tickets"]
    /\ UNCHANGED <<open_tickets, ticket_data, trial_events, ticket_events,
                   posted, pending, handled, channels, warnings, beyondGc>>

\* tasks.py:117-143 clean_ticket_data_json, run next by the daily cleanup:
\* the file is read and the channel of each key fetched
CleanRead ==
    /\ cleaner.pc = "tickets"
    /\ cleaner' = [NoCleaner EXCEPT !.pc = "fetch", !.ticket_data = ticket_data]
    /\ UNCHANGED <<packages, open_tickets, ticket_data, trial_events, ticket_events,
                   posted, pending, handled, channels, warnings, beyondGc>>

\* tasks.py:139-151: the fetches return; the keys whose channel is gone
\* are deleted from the dict read at the start, which is dumped if any was
CleanWrite ==
    /\ cleaner.pc = "fetch"
    /\ LET local == cleaner.ticket_data
           keys_to_delete == {k \in DOMAIN local : k[1] \notin DOMAIN channels}
       IN  ticket_data' = IF keys_to_delete = {} THEN ticket_data
                          ELSE [k \in DOMAIN local \ keys_to_delete |-> local[k]]
    /\ cleaner' = NoCleaner
    /\ UNCHANGED <<packages, open_tickets, trial_events, ticket_events,
                   posted, pending, handled, channels, warnings, beyondGc>>

\* comp_clan.py:372-376, components.py:451-455: a session as the flows save
\* it, with the selection message and the channel it was started in
Session(account, message, channel) ==
    [message_id |-> message, channel_id |-> channel] @@ NewPackage(<<account>>, "u1")

(***************************************************************************)
(* The deletion specification: two tickets are open, with two sessions of  *)
(* the competitive flow in them and one record of the FWA flow             *)
(* (fwa_clan.py:321), which has neither message nor channel; the staff     *)
(* arms timers, schedules trials and deletes messages and channels.        *)
(***************************************************************************)
InitGc ==
    /\ clans_config = SessionClans
    /\ players = SessionPlayers
    /\ \E where \in [1..2 -> {1, 2}] :
          packages = [t \in 1..3 |->
                         IF t = 3 THEN [acc_images |-> <<>>]
                         ELSE Session("#P1", 100 + t, where[t])]
    /\ messages = [t \in Tokens |-> NoMsg]
    /\ handlers = [h \in Handlers |-> Idle]
    /\ reply = "none"
    /\ final = [t \in Tokens |-> NoFinal]
    /\ issued = 0
    /\ quota = 0
    /\ channels = [ch \in {k[1] : k \in TimerKeys} |->
                      TicketChannel(MemberOf((CHOOSE k \in TimerKeys : k[1] = ch)[2]))]
    /\ open_tickets = [m \in {k[2] : k \in TimerKeys} |->
                         <<(CHOOSE k \in TimerKeys : k[2] = m)[1]>>]
    /\ creators = [c \in Creators |-> NoCreator]
    /\ created = Cardinality(TimerKeys)
    /\ TimersIdle /\ TrialsIdle /\ LaterIdle
    /\ ticket_events = <<>>
    /\ posted = {101, 102}
    /\ pending = {}
    /\ handled = {}
    /\ cleaner = NoCleaner

\* the staff arms a timer or schedules a trial
Schedules ==
    \/ \E key \in TimerKeys, hours_inactive \in Delays : Arm(key, hours_inactive)
    \/ \E key \in TimerKeys, days \in DelayDays, trial_duration \in TrialDurations :
           TrialDelayModal(key, days, trial_duration)

NextGc ==
    \/ Schedules
    \/ \E channel \in 1..MaxChannels : DeleteChannel(channel)
    \/ \E message \in 101..102 : DeleteMessage(message)
    \/ \E message \in 101..102 : on_message_delete(message)
    \/ \E channel \in 1..MaxChannels : on_channel_delete(channel)
    \/ CleanPackagesRead
    \/ CleanPackagesWrite
    \/ CleanRead
    \/ CleanWrite

SpecGc == InitGc /\ [][NextGc]_vars

\* C14: once the deletion of a channel has been handled, no key of
\* ticket_data.json and no key of trial_events.json is a key of that
\* channel.
C14_NoEventOfDeletedChannel ==
    \A e \in handled :
        e[1] = "channel" =>
            /\ \A k \in DOMAIN ticket_data : k[1] # e[2]
            /\ \A k \in DOMAIN trial_events : k[1] # e[2]


\* the sessions of p that the deleted message or channel of event e backs
BackedBy(p, e) ==
    {t \in DOMAIN p : Get(p[t], IF e[1] = "message" THEN "message_id" ELSE "channel_id") = e[2]}

\* C15: the listener of a deletion event removes from the session registry
\* every session whose message, respectively channel, was deleted, and no
\* other session: the registry after it is the registry before it without
\* those sessions.
C15_DeletionRemovesSessions ==
    [][\A e \in pending \ pending' :
          packages' = [t \in DOMAIN packages \ BackedBy(packages, e) |-> packages[t]]]_vars

\* C15 witness: the deletion of channel 1 has been handled with the first
\* session in it; the session of channel 2 and the FWA record are what is
\* left
C15_Witness ==
    /\ handled = {<<"channel", 1>>}
    /\ DOMAIN packages = {2, 3}
    /\ packages[2].channel_id = 2
    /\ pending = {}

\* C15 witness: the deletion of the message of session 2 has been handled;
\* every other session is in the registry
C15_WitnessMessage ==
    /\ handled = {<<"message", 102>>}
    /\ DOMAIN packages = {1, 3}


(***************************************************************************)
(* The trial specification: two tickets are open; the staff schedules and  *)
(* ends trials in them and deletes tickets, the sweep runs.                *)
(***************************************************************************)
InitTrials == InitTimers

NextTrials ==
    \/ \E key \in TimerKeys, days \in StartDays : TrialStartModal(key, days)
    \/ \E key \in TimerKeys, days \in DelayDays, trial_duration \in TrialDurations :
           TrialDelayModal(key, days, trial_duration)
    \/ \E key \in TimerKeys : StaffTrialEnd(key)
    \/ TrialsStart
    \/ TrialsFetch
    \/ \E ok \in BOOLEAN : TrialsSend(ok)
    \/ TrialTick
    \/ \E channel \in 1..MaxChannels : DeleteChannel(channel)
    \/ \E channel \in 1..MaxChannels : on_channel_delete(channel)

SpecTrials == InitTrials /\ [][NextTrials]_vars

\* the event read under key is consumed in the file: a start event is
\* replaced under the key by an end event dated the time of a moment
\* between from and to plus the stored days, a date still to come; an end
\* event is deleted
Consumed(key, value, file, from, to) ==
    IF value.action = "start"
    THEN /\ key \in DOMAIN file
         /\ file[key].action = "end"
         /\ \E t \in from..to : file[key].date = t + value.days
         /\ file[key].date > to
    ELSE key \notin DOMAIN file

\* C16: when a sweep is over, every event whose date had come when the
\* sweep read the registry is consumed: a start event is replaced under the
\* same key by an end event dated the sweep time plus the stored duration,
\* a future date, and an end event is deleted.
C16_SweepConsumes ==
    [][(trials.pc # "idle" /\ trials'.pc = "idle") =>
          \A key \in DOMAIN trials.copy :
              Elapsed(trials.copy[key], trials.now) =>
                  Consumed(key, trials.copy[key], trial_events', trials.now, now)]_vars



(***************************************************************************)
(* Trial polls (trials.py).  A poll of trial_votes.json is the record of   *)
(* its three buckets, each the list of the voters' ids in the order of     *)
(* their presses.                                                          *)
(***************************************************************************)
\* the application sessions are idle
SessionsIdle ==
    /\ clans_config = SessionClans
    /\ players = SessionPlayers
    /\ packages = <<>>
    /\ messages = [t \in Tokens |-> NoMsg]
    /\ handlers = [h \in Handlers |-> Idle]
    /\ final = [t \in Tokens |-> NoFinal]
    /\ issued = 0
    /\ quota = 0

Buckets == {"upvote", "neutral", "downvote"}

\* item in list
In(item, list) == \E i \in DOMAIN list : list[i] = item

\* list.remove(item): the first occurrence goes
RemoveFirst(list, item) ==
    LET first == CHOOSE i \in DOMAIN list : list[i] = item /\ \A j \in 1..(i - 1) : list[j] # item
    IN  SubSeq(list, 1, first - 1) \o SubSeq(list, first + 1, Len(list))

\* trials.py:439-443 voting_start: the poll is set in the file with three
\* empty buckets, read and written without an await in between
VotingStart ==
    /\ Cardinality(DOMAIN trial_votes) < MaxPolls
    /\ trial_votes' = Put(trial_votes, Cardinality(DOMAIN trial_votes) + 1,
                          [upvote |-> <<>>, neutral |-> <<>>, downvote |-> <<>>])
    /\ reply' = "poll_created"
    /\ UNCHANGED <<votes_cast, ballots, beyondVotes>>

\* mutant: the voter stays in the other buckets
RecordedWithoutRemoval(data, vote_type, voter) ==
    [data EXCEPT ![vote_type] = Append(@, voter)]

\* mutant: the bucket pressed is left with the voter alone
RecordedAlone(data, vote_type, voter) ==
    [key \in DOMAIN data |->
        IF key = vote_type THEN <<voter>>
        ELSE IF In(voter, data[key]) THEN RemoveFirst(data[key], voter)
        ELSE data[key]]

\* trials.py:475-482: the voter is appended to the bucket and removed
\* from every other bucket that holds it
Recorded(data, vote_type, voter) ==
    [key \in DOMAIN data |->
        IF key = vote_type THEN Append(data[key], voter)
        ELSE IF In(voter, data[key]) THEN RemoveFirst(data[key], voter)
        ELSE data[key]]

\* trials.py:446-488 voting_buttons: from the role check to the dump of
\* the file nothing is awaited, so a press runs in one step
VotingButtons(voter, vote_type, poll_token) ==
    /\ poll_token \in DOMAIN trial_votes
    /\ IF voter \notin Allowed
       THEN /\ reply' = "not_allowed"
            /\ ballots' = [ballots EXCEPT !.last = <<voter, vote_type, poll_token>>]
            /\ UNCHANGED <<trial_votes, votes_cast>>
       ELSE IF In(voter, trial_votes[poll_token][vote_type])
       THEN /\ reply' = "already_voted"
            /\ ballots' = [ballots EXCEPT !.last = <<voter, vote_type, poll_token>>]
            /\ UNCHANGED <<trial_votes, votes_cast>>
       ELSE /\ votes_cast < MaxVotes
            /\ trial_votes' = [trial_votes EXCEPT ![poll_token] = Recorded(@, vote_type, voter)]
            /\ votes_cast' = votes_cast + 1
            /\ ballots' = [ballots EXCEPT !.last = <<voter, vote_type, poll_token>>,
                                          !.latest[poll_token][voter] = vote_type]
            /\ reply' = "voted"
    /\ UNCHANGED beyondVotes

(***************************************************************************)
(* The poll specification: polls are opened and their buttons pressed.     *)
(***************************************************************************)
InitVotes == SessionsIdle /\ reply = "none" /\ WorldIdle

NextVotes ==
    \/ VotingStart
    \/ \E voter \in Voters, vote_type \in Buckets, poll_token \in 1..MaxPolls :
           VotingButtons(voter, vote_type, poll_token)

SpecVotes == InitVotes /\ [][NextVotes]_vars

\* the number of times the voter is listed in the poll
Listed(data, voter) ==
    Cardinality({<<key, i>> \in Buckets \X (1..Cardinality(Voters) * 2) :
                    i \in DOMAIN data[key] /\ data[key][i] = voter})

\* C17: in every poll each voter is in at most one of the three buckets
\* (and at most once in it).
C17_OneBucketPerVoter ==
    \A poll_token \in DOMAIN trial_votes : \A voter \in Voters :
        Listed(trial_votes[poll_token], voter) <= 1

\* C17 witness: after three accepted presses of the two voters, one of
\* which was a change of vote, the poll lists each of them once
C17_Witness ==
    /\ votes_cast = 3
    /\ 1 \in DOMAIN trial_votes
    /\ Listed(trial_votes[1], 21) = 1
    /\ Listed(trial_votes[1], 22) = 1
    /\ trial_votes[1].downvote = <<21>>



(***************************************************************************)
(* The clan checks commands (clan_cmds.py).  Each command loads            *)
(* clans_config.json, awaits the resolution of the clan's tag, and then    *)
(* tests and writes the configuration it loaded: a slot of `commands` is   *)
(* a command between its load and its write.  The clan is given by the tag *)
(* of an alliance clan.                                                    *)
(***************************************************************************)
CheckTypes == {"hero_sum", "hero_max", "overall_max"}

\* the min_value options of the commands drawn, and the value typed in the
\* modal
AddValues == {60}
EditValues == {60}

\* the clan named in the commands: the one that has a check
CommandClans == {"#C2"}

FreeCommand(c) == commands[c].op = "idle"

\* check_type in clans_config[clan_tag]["checks"]
HasCheck(checks, check_type) == \E i \in DOMAIN checks : checks[i].name = check_type

\* del clans_config[clan_tag]["checks"][check_type]
WithoutCheck(checks, check_type) == SelectSeq(checks, LAMBDA check : check.name # check_type)

\* clans_config[clan_tag]["checks"][check_type]["min_value"] = value
WithMinValue(checks, check_type, value) ==
    [i \in DOMAIN checks |->
        IF checks[i].name = check_type THEN [checks[i] EXCEPT !.min_value = value]
        ELSE checks[i]]

\* clan_cmds.py:399, 443, 480: the command loads the configuration and
\* awaits extract_tags
ChecksRead(c, op, clan, check_type, min_value) ==
    /\ FreeCommand(c)
    /\ commands' = [commands EXCEPT ![c] =
           [op |-> op, clans_config |-> clans_config, clan |-> clan,
            check_type |-> check_type, min_value |-> min_value]]
    /\ UNCHANGED <<clans_config, reply, beyondChecks>>

\* mutant: the number of checks is not tested
NeverFull(checks) == FALSE

\* clan_cmds.py:407
Full(checks) == Len(checks) >= 2

\* clan_cmds.py:401-423 clan_checks_add after the await: the tests and the
\* write are on the configuration loaded before it
ChecksAddWrite(c) ==
    LET local == commands[c].clans_config
        clan  == commands[c].clan
    IN  /\ commands[c].op = "add"
        /\ commands' = [commands EXCEPT ![c] = NoCommand]
        /\ IF Full(local[clan].checks)
           THEN /\ reply' = "full"
                /\ UNCHANGED clans_config
           ELSE IF HasCheck(local[clan].checks, commands[c].check_type)
           THEN /\ reply' = "duplicate"
                /\ UNCHANGED clans_config
           ELSE /\ clans_config' = [local EXCEPT ![clan].checks =
                       Append(@, [name |-> commands[c].check_type,
                                  min_value |-> commands[c].min_value])]
                /\ reply' = "added"
        /\ UNCHANGED beyondChecks

\* clan_cmds.py:445-460 clan_checks_remove after the await
ChecksRemoveWrite(c) ==
    LET local == commands[c].clans_config
        clan  == commands[c].clan
    IN  /\ commands[c].op = "remove"
        /\ commands' = [commands EXCEPT ![c] = NoCommand]
        /\ IF ~HasCheck(local[clan].checks, commands[c].check_type)
           THEN /\ reply' = "no_such_check"
                /\ UNCHANGED clans_config
           ELSE /\ clans_config' = [local EXCEPT ![clan].checks =
                       WithoutCheck(@, commands[c].check_type)]
                /\ reply' = "removed"
        /\ UNCHANGED beyondChecks

\* clan_cmds.py:482-503 clan_checks_edit after the await: the modal is sent
\* when the configuration loaded holds the check; nothing is written
ChecksEditModal(c) ==
    LET local == commands[c].clans_config
        clan  == commands[c].clan
    IN  /\ commands[c].op = "edit"
        /\ IF ~HasCheck(local[clan].checks, commands[c].check_type)
           THEN /\ reply' = "no_such_check"
                /\ commands' = [commands EXCEPT ![c] = NoCommand]
           ELSE /\ reply' = "modal"
                /\ commands' = [commands EXCEPT ![c].op = "modal", ![c].clans_config = <<>>]
        /\ UNCHANGED <<clans_config, beyondChecks>>

\* clan_cmds.py:505-524 clan_check_edit_modal: the file is loaded, the
\* value of the check set and the file dumped with no await in between;
\* a check that is no longer in the file is a KeyError
ClanCheckEditModal(c, value) ==
    LET clan == commands[c].clan
    IN  /\ commands[c].op = "modal"
        /\ commands' = [commands EXCEPT ![c] = NoCommand]
        /\ IF ~HasCheck(clans_config[clan].checks, commands[c].check_type)
           THEN /\ reply' = "error"
                /\ UNCHANGED clans_config
           ELSE /\ clans_config' = [clans_config EXCEPT ![clan].checks =
                       WithMinValue(@, commands[c].check_type, value)]
                /\ reply' = "edited"
        /\ UNCHANGED beyondChecks

(***************************************************************************)
(* The clan checks specification: add, remove and edit commands on a clan, *)
(* MaxCommands of them in flight at once.                                  *)
(***************************************************************************)
InitChecks == SessionsIdle /\ reply = "none" /\ WorldIdle

NextChecks ==
    \/ \E c \in 1..MaxCommands, clan \in CommandClans, check_type \in CheckTypes :
           \/ \E min_value \in AddValues : ChecksRead(c, "add", clan, check_type, min_value)
           \/ ChecksRead(c, "remove", clan, check_type, 0)
           \/ ChecksRead(c, "edit", clan, check_type, 0)
    \/ \E c \in 1..MaxCommands :
           \/ ChecksAddWrite(c)
           \/ ChecksRemoveWrite(c)
           \/ ChecksEditModal(c)
           \/ \E value \in EditValues : ClanCheckEditModal(c, value)

SpecChecks == InitChecks /\ [][NextChecks]_vars

\* C18: every clan record of the configuration holds at most 2 checks.
C18_AtMostTwoChecks ==
    \A clan \in DOMAIN clans_config : Len(clans_config[clan].checks) <= 2

\* C18 witness: an add command has been refused on a clan that holds two
\* checks while another command on the same clan is in flight
C18_Witness ==
    /\ reply = "full"
    /\ Len(clans_config["#C2"].checks) = 2
    /\ \E c \in 1..MaxCommands : commands[c].op = "add" /\ commands[c].clan = "#C2"



(***************************************************************************)
(* Linked accounts (player_cmds.py, fwa_clan.py).  member_tags is          *)
(* data/member_tags.json: user id -> the list of the account tags linked   *)
(* to the user.  Every handler loads the whole file, awaits the game API   *)
(* or the user, and dumps what it loaded with its own changes: a slot of   *)
(* `linkers` is a handler between its load and its dump.                   *)
(***************************************************************************)
LinkUsers == {11, 12}
LinkTags == {"#P1", "#P2"}

\* the tags typed in a command, as extract_tags returns them: in the order
\* typed, a tag typed twice returned twice
TagInputs == {<<"#P1">>, <<"#P2">>, <<"#P2", "#P2">>}

\* the staff unlinks accounts of the first user; the second user applies
UnlinkUsers == {11}
LinkApplicants == {12}

\* the map the file starts with: every account has one owner
InitialLinks == {(11 :> <<"#P1">>)}

FreeLinker(l) == linkers[l].op = "idle"

\* player_links.get(user, [])
TagsOf(player_links, user) ==
    IF user \in DOMAIN player_links THEN player_links[user] ELSE <<>>

\* core/utils.py:227-242 reverse_dict: tag -> the users whose list holds
\* it (the code's list of keys, as a set)
reverse_dict(dictionary) ==
    LET items == {tag \in LinkTags : \E key \in DOMAIN dictionary : In(tag, dictionary[key])}
    IN  [item \in items |-> {key \in DOMAIN dictionary : In(item, dictionary[key])}]

\* player_links.setdefault(user, []).append(tag)
WithLink(player_links, user, tag) ==
    Put(player_links, user, Append(TagsOf(player_links, user), tag))

\* player_links[user].remove(tag)
WithoutLink(player_links, user, tag) ==
    [player_links EXCEPT ![user] = RemoveFirst(@, tag)]

\* mutant: no tag is taken to be linked to someone
NeverLinked(tag, player_links_reversed) == FALSE

\* tag in player_links_reversed
Linked(tag, player_links_reversed) == tag \in DOMAIN player_links_reversed

\* player_cmds.py:312-313, 563-564, 418: the handler loads the file and
\* awaits (extract_tags, fetch_member, fetch_player)
LinkerRead(l, op, user, tags) ==
    /\ FreeLinker(l)
    /\ linkers' = [linkers EXCEPT ![l] =
           [op |-> op, player_links |-> member_tags, user |-> user, tags |-> tags,
            user_id |-> 0]]
    /\ UNCHANGED <<member_tags, reply, beyondLinks>>

\* player_cmds.py:329-341 player_link: the loop over the tags from the
\* i-th on; the reverse map is the one computed at the load
RECURSIVE LinkFrom(_, _, _, _, _, _)
LinkFrom(player_links, player_links_reversed, user, valid_tags, i, sent) ==
    IF i > Len(valid_tags) THEN [player_links |-> player_links, sent |-> sent]
    ELSE IF In(valid_tags[i], TagsOf(player_links, user))
    THEN LinkFrom(player_links, player_links_reversed, user, valid_tags, i + 1, "already_linked")
    ELSE IF Linked(valid_tags[i], player_links_reversed)
    THEN LinkFrom(player_links, player_links_reversed, user, valid_tags, i + 1, "linked_to_other")
    ELSE LinkFrom(WithLink(player_links, user, valid_tags[i]), player_links_reversed,
                  user, valid_tags, i + 1, "linked")

\* player_cmds.py:316-344 player_link after the await
LinkWrite(l) ==
    LET local == linkers[l].player_links
        done  == LinkFrom(local, reverse_dict(local), linkers[l].user, linkers[l].tags, 1, "none")
    IN  /\ linkers[l].op = "link"
        /\ member_tags' = done.player_links
        /\ reply' = done.sent
        /\ linkers' = [linkers EXCEPT ![l] = NoLinker]
        /\ UNCHANGED beyondLinks

\* player_cmds.py:603-613 player_verify: the loop over the tags from the
\* i-th on; a tag that the reverse map of the load does not hold is
\* appended
RECURSIVE VerifyFrom(_, _, _, _, _)
VerifyFrom(player_links, player_links_reversed, member, corrected_tags, i) ==
    IF i > Len(corrected_tags) THEN player_links
    ELSE IF ~Linked(corrected_tags[i], player_links_reversed)
    THEN VerifyFrom(WithLink(player_links, member, corrected_tags[i]), player_links_reversed,
                    member, corrected_tags, i + 1)
    ELSE VerifyFrom(player_links, player_links_reversed, member, corrected_tags, i + 1)

\* player_cmds.py:566-634 player_verify with player_tags given, after the
\* awaits
VerifyWrite(l) ==
    LET local == linkers[l].player_links
    IN  /\ linkers[l].op = "verify"
        /\ member_tags' = VerifyFrom(local, reverse_dict(local), linkers[l].user,
                                     linkers[l].tags, 1)
        /\ reply' = "verified"
        /\ linkers' = [linkers EXCEPT ![l] = NoLinker]
        /\ UNCHANGED beyondLinks

\* fwa_clan.py:253-258 apply_fwa: once the applicant has given a valid
\* tag the file is loaded and the tag appended to the applicant's list
\* when the file does not hold it; the flow then awaits the proof image
ApplyRead(l, author, tag) ==
    /\ FreeLinker(l)
    /\ linkers' = [linkers EXCEPT ![l] =
           [op |-> "apply",
            player_links |-> IF ~Linked(tag, reverse_dict(member_tags))
                             THEN WithLink(member_tags, author, tag)
                             ELSE member_tags,
            user |-> author, tags |-> <<tag>>, user_id |-> 0]]
    /\ UNCHANGED <<member_tags, reply, beyondLinks>>

\* fwa_clan.py:316-317 apply_fwa: the map loaded at the tag step is dumped
ApplyWrite(l) ==
    /\ linkers[l].op = "apply"
    /\ member_tags' = linkers[l].player_links
    /\ linkers' = [linkers EXCEPT ![l] = NoLinker]
    /\ UNCHANGED <<reply, beyondLinks>>

\* player_cmds.py:411-418 player_unlink: the handler loads the file and
\* awaits fetch_player.  player_tag is a tag or "all"; user_id is the id
\* typed to override the user selected, 0 when the option is left out
UnlinkRead(l, user, player_tag, user_id) ==
    /\ FreeLinker(l)
    /\ linkers' = [linkers EXCEPT ![l] =
           [op |-> "unlink", player_links |-> member_tags, user |-> user,
            tags |-> <<player_tag>>, user_id |-> user_id]]
    /\ UNCHANGED <<member_tags, reply, beyondLinks>>

RECURSIVE UnlinkFrom(_, _, _, _, _, _)
\* player_cmds.py:438-445: the loop from its i-th round on.  With "all"
\* `tags` is the list of the target in the map itself, the list the loop
\* removes from; a tag is tested against the list of the user selected
\* and removed from the list of the target, which raises when the target
\* does not have it
UnlinkFrom(player_links, user, user_id, player_tag, i, sent) ==
    LET tags == IF player_tag = "all" THEN player_links[user_id] ELSE <<player_tag>>
    IN  IF i > Len(tags) THEN [player_links |-> player_links, sent |-> sent]
        ELSE IF ~In(tags[i], TagsOf(player_links, user))
        THEN UnlinkFrom(player_links, user, user_id, player_tag, i + 1, "not_linked")
        ELSE IF ~In(tags[i], TagsOf(player_links, user_id))
        THEN [player_links |-> player_links, sent |-> "raised"]
        ELSE UnlinkFrom(WithoutLink(player_links, user_id, tags[i]), user, user_id,
                        player_tag, i + 1, "removed")

\* player_cmds.py:421-448 player_unlink after the await: the target is the
\* id typed or else the user selected; the tags are removed from the map
\* loaded and the map is dumped.  Nothing is dumped when the target of
\* "all" is not a key of the map or a removal raises
UnlinkWrite(l) ==
    LET local      == linkers[l].player_links
        user       == linkers[l].user
        player_tag == linkers[l].tags[1]
        user_id    == IF linkers[l].user_id = 0 THEN user ELSE linkers[l].user_id
    IN  /\ linkers[l].op = "unlink"
        /\ IF player_tag = "all" /\ user_id \notin DOMAIN local
           THEN /\ reply' = "raised"
                /\ UNCHANGED member_tags
           ELSE LET done == UnlinkFrom(local, user, user_id, player_tag, 1, "none")
                IN  /\ reply' = done.sent
                    /\ member_tags' = IF done.sent = "raised" THEN member_tags
                                      ELSE done.player_links
        /\ linkers' = [linkers EXCEPT ![l] = NoLinker]
        /\ UNCHANGED beyondLinks

(***************************************************************************)
(* The links specification: link and verify commands for two users on two  *)
(* accounts, unlink commands and FWA applications, MaxLinkers of them in   *)
(* flight at once.                                                         *)
(***************************************************************************)
InitLinks ==
    /\ SessionsIdle
    /\ reply = "none"
    /\ EarlierIdle
    /\ trial_votes = <<>>
    /\ votes_cast = 0
    /\ ballots = NoBallots
    /\ commands = [c \in 1..MaxCommands |-> NoCommand]
    /\ member_tags \in InitialLinks
    /\ linkers = [l \in 1..MaxLinkers |-> NoLinker]
    /\ interview = NoInterview
    /\ CachesIdle

NextLinks ==
    \/ \E l \in 1..MaxLinkers :
           \/ \E user \in LinkUsers, tags \in TagInputs :
                  \/ LinkerRead(l, "link", user, tags)
                  \/ LinkerRead(l, "verify", user, tags)
           \/ \E user \in UnlinkUsers, tag \in LinkTags :
                  UnlinkRead(l, user, tag, 0)
           \/ \E author \in LinkApplicants, tag \in LinkTags :
                  ApplyRead(l, author, tag)
    \/ \E l \in 1..MaxLinkers :
           \/ LinkWrite(l)
           \/ VerifyWrite(l)
           \/ ApplyWrite(l)
           \/ UnlinkWrite(l)

SpecLinks == InitLinks /\ [][NextLinks]_vars

\* C19: every account tag of the linked-account map is listed under
\* exactly one user.
C19_OneOwner ==
    \A tag \in DOMAIN reverse_dict(member_tags) :
        Cardinality(reverse_dict(member_tags)[tag]) = 1

\* C19 witness: a link of an account to a user has been refused because
\* the map loaded held it under the other user, and both users own an
\* account
C19_Witness ==
    /\ reply = "linked_to_other"
    /\ \A user \in LinkUsers : TagsOf(member_tags, user) # <<>>



(***************************************************************************)
(* The input steps of the application flows (comp_clan.py apply_clan,      *)
(* fwa_clan.py apply_fwa).  `interview` is the run of one applicant: the   *)
(* flow, the number of accounts applied with, the account and the step the *)
(* flow waits at, the local counter `fails` of the step, what the step's   *)
(* message shows, the tags given so far and the map of linked accounts     *)
(* loaded at the tag step.  apply_fwa first asks for the number of         *)
(* accounts; apply_clan asks for the tag of one account; apply_fwa asks,   *)
(* for each account, for the tag and then for the proof image.             *)
(*                                                                         *)
(* A wait of the flow is one task per kind of input: "message" (wait_for   *)
(* on_message_create) and "select" (wait_for_component on the menu of the  *)
(* step).  waits[kind] is "none" (no such task), "pending", or the input   *)
(* the task has completed with and the flow has not yet resumed on.        *)
(* `first` is the kind of the first input of the current wait, `driver`    *)
(* the kind of the task whose result the flow last resumed on, `elapsed`   *)
(* the minutes the current wait has lasted.                                *)
(***************************************************************************)
\* comp_clan.py:188, fwa_clan.py:226, 299: `if fails == 3`
FailCap == 3

\* fwa_clan.py:127: timeout=180 of the account-count choice, in minutes
CountTimeout == 3

\* comp_clan.py:153, 161, fwa_clan.py:193, 201, 287: timeout=600 of the
\* tag and of the proof image, in minutes
InputWaitTimeout == 10

Flows == {"clan", "fwa"}

Kinds == {"message", "select"}

\* mutant: every wait has the timeout of the tag
AlwaysInputWait(step) == InputWaitTimeout

\* the timeout of the wait of a step
TimeoutOf(step) == IF step = "count" THEN CountTimeout ELSE InputWaitTimeout

\* the tasks a step waits on: the account-count choice on its menu; the
\* tag on the applicant's next message and, when the applicant has linked
\* accounts, on their menu (comp_clan.py:151-164, fwa_clan.py:190-204);
\* the proof image on the next message (fwa_clan.py:286-288)
Armed(step, options) ==
    [message |-> IF step \in {"tag", "image"} THEN "pending" ELSE "none",
     select  |-> IF step = "count" \/ (step = "tag" /\ options # {}) THEN "pending" ELSE "none"]

NoWaits == [message |-> "none", select |-> "none"]

\* the inputs a task of the step can complete with: a choice of the menu
\* is one of its options
InputsOf(step, kind, options) ==
    IF step = "count" THEN {"1", "2"}
    ELSE IF step = "tag" THEN (IF kind = "message" THEN LinkTags \cup {"invalid"} ELSE options)
    ELSE {"image", "invalid"}

\* the task has completed with an input
Completed(kind) == interview.waits[kind] \notin {"none", "pending"}

\* the flow's next wait (the loop creates its tasks anew) or its end
Waiting(run) ==
    [run EXCEPT !.waits = IF run.pc = "waiting" THEN Armed(run.step, run.options) ELSE NoWaits,
                !.elapsed = 0]

\* mutant: the flow ends on the input that takes the counter to the cap
OneBelowCap(fails) == fails = FailCap - 1

\* comp_clan.py:188, fwa_clan.py:226, 299: the test made before the
\* counter is incremented
AtCap(fails) == fails = FailCap

\* comp_clan.py:51-148, fwa_clan.py:50-127: a run starts, from the panel
\* or from the restart button of an ended run; the linked accounts of the
\* applicant are the options of the menu shown at the tag steps
ApplyStart(flow, author) ==
    /\ interview.pc \in {"idle", "failed", "timeout", "done"}
    /\ interview' = Waiting(
           [pc |-> "waiting", flow |-> flow, accounts |-> IF flow = "clan" THEN 1 ELSE 0,
            i |-> 1, step |-> IF flow = "clan" THEN "tag" ELSE "count", fails |-> 0,
            shown |-> "question", account_tags |-> <<>>, player_links |-> <<>>,
            options |-> {tag \in LinkTags : In(tag, TagsOf(member_tags, author))},
            waits |-> NoWaits, first |-> "none", driver |-> "none",
            elapsed |-> 0])
    /\ reply' = "question"
    /\ UNCHANGED beyondInterview

\* an input of the applicant arrives within the timeout and completes the
\* pending task of its kind; the flow resumes in a later step
Arrive(kind, input) ==
    /\ interview.pc = "waiting"
    /\ interview.waits[kind] = "pending"
    /\ interview.elapsed < TimeoutOf(interview.step)
    /\ input \in InputsOf(interview.step, kind, interview.options)
    /\ interview' = [interview EXCEPT
           !.waits[kind] = input,
           !.first = IF \E other \in Kinds : Completed(other) THEN @ ELSE kind,
           !.driver = IF \E other \in Kinds : Completed(other) THEN @ ELSE "none"]
    /\ UNCHANGED <<reply, beyondInterview>>

\* a minute of a wait in which nothing has arrived
WaitTick ==
    /\ interview.pc = "waiting"
    /\ \A kind \in Kinds : ~Completed(kind)
    /\ interview.elapsed < TimeoutOf(interview.step)
    /\ interview' = [interview EXCEPT !.elapsed = @ + 1]
    /\ UNCHANGED <<reply, beyondInterview>>

\* comp_clan.py:167-180, fwa_clan.py:206-218: asyncio.wait returns the
\* set of the tasks that are done when the flow resumes, the flow takes
\* list(done)[0] and cancels the pending ones: `kind` drives the step
Drives(kind) == interview.pc = "waiting" /\ Completed(kind)

\* fwa_clan.py:124-139: the number of accounts is chosen
CountChosen(kind) ==
    /\ Drives(kind)
    /\ interview.step = "count"
    /\ interview' = Waiting([interview EXCEPT
           !.accounts = IF interview.waits[kind] = "1" THEN 1 ELSE 2,
           !.step = "tag", !.driver = kind])
    /\ reply' = "accepted"
    /\ UNCHANGED beyondInterview

\* comp_clan.py:186-199, fwa_clan.py:224-236, 297-310: an input that is
\* not a valid tag, respectively not an image: with the counter at 3 the
\* message is edited to the failure notice with the restart button and
\* the flow is cancelled; otherwise the error is sent, the counter
\* incremented and the flow waits again
InvalidInput(kind) ==
    /\ Drives(kind)
    /\ interview.waits[kind] = "invalid"
    /\ IF AtCap(interview.fails)
       THEN /\ interview' = Waiting([interview EXCEPT !.pc = "failed", !.shown = "fail_restart",
                                                      !.driver = kind])
            /\ reply' = "interview_ended"
       ELSE /\ interview' = Waiting([interview EXCEPT !.fails = @ + 1, !.driver = kind])
            /\ reply' = "invalid"
    /\ UNCHANGED beyondInterview

\* comp_clan.py:201-226, fwa_clan.py:238-258, 292-313: a valid input ends
\* the step whatever the counter.  The tag is appended to account_tags,
\* member_tags.json loaded and the tag appended to the applicant's list
\* of the loaded map when the map does not hold it; apply_fwa then asks
\* for the image with fails = 0, after the image for the tag of the next
\* account; after the last step the flow goes on to the summary
ValidInput(kind, author) ==
    LET input == interview.waits[kind]
        local == IF Linked(input, reverse_dict(member_tags))
                 THEN member_tags ELSE WithLink(member_tags, author, input)
    IN  /\ Drives(kind)
        /\ interview.step \in {"tag", "image"}
        /\ input # "invalid"
        /\ IF interview.step = "tag"
           THEN IF interview.flow = "fwa"
                THEN interview' = Waiting([interview EXCEPT
                         !.step = "image", !.fails = 0, !.driver = kind,
                         !.account_tags = Append(@, input), !.player_links = local])
                ELSE interview' = Waiting([interview EXCEPT
                         !.pc = "done", !.shown = "answered", !.driver = kind,
                         !.account_tags = Append(@, input), !.player_links = local])
           ELSE IF interview.i < interview.accounts
                THEN interview' = Waiting([interview EXCEPT
                         !.i = @ + 1, !.step = "tag", !.fails = 0, !.driver = kind])
                ELSE interview' = Waiting([interview EXCEPT
                         !.pc = "done", !.shown = "answered", !.driver = kind])
        /\ reply' = "accepted"
        /\ UNCHANGED beyondInterview

\* comp_clan.py:179-182, fwa_clan.py:125-129, 219-220, 286-290: nothing
\* has arrived within the timeout of the wait: the task's result is a
\* TimeoutError and the flow raises ComponentTimeoutError(message=msg)
InputTimeout ==
    /\ interview.pc = "waiting"
    /\ \A kind \in Kinds : ~Completed(kind)
    /\ interview.elapsed = TimeoutOf(interview.step)
    /\ interview' = [interview EXCEPT !.pc = "raised", !.waits = NoWaits]
    /\ UNCHANGED <<reply, beyondInterview>>

\* errors.py:62-67 on_error: the flows run under the custom ids
\* clan_start_button and fwa_start_button (the restart buttons have the
\* same ids, utils.py:128-140), so the message of the error is edited to
\* the timeout notice with the restart button of the flow
on_error ==
    /\ interview.pc = "raised"
    /\ interview' = [interview EXCEPT !.pc = "timeout", !.shown = "timeout_restart"]
    /\ reply' = "timed_out"
    /\ UNCHANGED beyondInterview

\* comp_clan.py:239-417: the run of apply_clan that has its tag goes on to
\* generate the clans and to save the session
InterviewGenerate(h) ==
    /\ interview.pc = "done"
    /\ interview.flow = "clan"
    /\ \E member \in Applicants : ApplyClanGenerate(h, member, interview.account_tags[1])

\* fwa_clan.py:315-325: the run of apply_fwa that has its tags and images
\* dumps the map of linked accounts it loaded at the last tag step and
\* stores its record, the images by account, under a fresh token; nothing
\* is awaited in between
ApplyFwaSave ==
    /\ interview.pc = "done"
    /\ interview.flow = "fwa"
    /\ issued < quota
    /\ member_tags' = interview.player_links
    /\ packages' = Put(packages, issued + 1,
           [acc_images |-> [tag \in {interview.account_tags[n] :
                                        n \in DOMAIN interview.account_tags} |-> "image"]])
    /\ issued' = issued + 1
    /\ reply' = "summary"
    /\ UNCHANGED <<clans_config, players, messages, handlers, final, quota, earlierVars,
                   voteVars, commands, linkers, interview, cacheVars>>

(***************************************************************************)
(* The interview specification: runs of the two flows of one applicant,    *)
(* with valid and invalid inputs and timeouts at every step; one session   *)
(* can be created.                                                         *)
(***************************************************************************)
InterviewAuthors == {12}

\* the maps of linked accounts a run starts with: the applicant has none,
\* or one
InterviewLinks == {<<>>, (12 :> <<"#P1">>)}

InitInterview ==
    /\ clans_config = SessionClans
    /\ players = SessionPlayers
    /\ packages = <<>>
    /\ messages = [t \in Tokens |-> NoMsg]
    /\ handlers = [h \in Handlers |-> Idle]
    /\ final = [t \in Tokens |-> NoFinal]
    /\ issued = 0
    /\ quota = 1
    /\ reply = "none"
    /\ EarlierIdle
    /\ trial_votes = <<>>
    /\ votes_cast = 0
    /\ ballots = NoBallots
    /\ commands = [c \in 1..MaxCommands |-> NoCommand]
    /\ member_tags \in InterviewLinks
    /\ linkers = [l \in 1..MaxLinkers |-> NoLinker]
    /\ interview = NoInterview
    /\ CachesIdle

NextInterview ==
    \/ \E flow \in Flows, author \in InterviewAuthors : ApplyStart(flow, author)
    \/ \E kind \in Kinds, input \in LinkTags \cup {"1", "2", "image", "invalid"} :
           Arrive(kind, input)
    \/ WaitTick
    \/ \E kind \in Kinds :
           \/ CountChosen(kind)
           \/ InvalidInput(kind)
           \/ \E author \in InterviewAuthors : ValidInput(kind, author)
    \/ InputTimeout
    \/ on_error
    \/ \E h \in Handlers : InterviewGenerate(h) \/ ApplyClanSave(h)
    \/ ApplyFwaSave

SpecInterview == InitInterview /\ [][NextInterview]_vars

\* C20 (as stated): while the flow still takes input at a step, the
\* counter of the step is below its cap of 3.  Violated: after the third
\* invalid input the counter is 3 and the flow waits for a further input.
C20_EndsAtCap == interview.pc = "waiting" => interview.fails < FailCap

\* the flow resumes on an input in this step
TakesInput ==
    /\ interview.pc = "waiting"
    /\ \E kind \in Kinds : Completed(kind)
    /\ \A kind \in Kinds : interview'.waits[kind] \in {"none", "pending"}

\* C20 (amended): the counter of a step never exceeds 3; an invalid input
\* increments it while it is below 3; the run becomes failed only by an
\* input taken with the counter already at 3 (the fourth invalid input of
\* the step), the message then showing the failure notice with the
\* restart button; a failed run takes no input, only a new run can follow.
C20_EndsAfterCap ==
    /\ [](interview.fails <= FailCap)
    /\ [][/\ (interview'.pc = "failed" /\ interview.pc # "failed") =>
                 /\ interview.pc = "waiting"
                 /\ interview.fails = FailCap
                 /\ interview'.shown = "fail_restart"
                 /\ interview'.fails = FailCap
          /\ (TakesInput /\ reply' = "invalid") =>
                 /\ interview.fails < FailCap
                 /\ interview'.fails = interview.fails + 1
                 /\ interview'.pc = "waiting"
                 /\ interview'.step = interview.step
                 /\ interview'.i = interview.i
          /\ (interview.pc = "failed" /\ interview' # interview) =>
                 /\ interview'.pc = "waiting"
                 /\ interview'.fails = 0
                 /\ interview'.step \in {"tag", "count"}
                 /\ interview'.i = 1]_vars

\* C20 witness: the proof-image step of the second account of an FWA run
\* has ended in the failed state, the counter at 3
C20_Witness ==
    /\ interview.pc = "failed"
    /\ interview.flow = "fwa"
    /\ interview.step = "image"
    /\ interview.i = 2
    /\ interview.fails = FailCap
    /\ interview.shown = "fail_restart"



\* the waits expire and the handler of the error runs (asyncio fires the
\* timeout of a task; the library dispatches the error to on_error)
SpecInterviewFair ==
    SpecInterview /\ WF_vars(InputTimeout) /\ WF_vars(on_error)

\* the wait of the step has lasted its timeout and no input has arrived
Expired ==
    /\ interview.pc = "waiting"
    /\ \A kind \in Kinds : ~Completed(kind)
    /\ interview.elapsed = (IF interview.step = "count" THEN CountTimeout
                            ELSE InputWaitTimeout)

\* C21: a wait in which no input has arrived within the step's timeout (3
\* minutes for the account-count choice, 10 for a tag or a proof image)
\* ends, and only then, with the timeout signal raised: the flow stops
\* without drawing a token or changing the registry or a selection
\* message, and the handler then shows the timeout notice with the restart
\* button on the prompt; a token is only drawn by a run that has all its
\* inputs.
C21_TimeoutStops ==
    /\ [][/\ (interview'.pc = "raised" /\ interview.pc # "raised") =>
                 /\ Expired
                 /\ UNCHANGED <<packages, messages, issued>>
                 /\ interview'.shown = interview.shown
          /\ (interview.pc = "raised" /\ interview' # interview) =>
                 /\ interview'.pc = "timeout"
                 /\ interview'.shown = "timeout_restart"
                 /\ UNCHANGED <<packages, messages, issued>>
          /\ issued' # issued => interview.pc = "done"]_vars
    /\ [](Expired => <>(interview.pc = "timeout" /\ interview.shown = "timeout_restart"))

\* C21 witness: the wait for the proof image of an FWA run has timed out,
\* the notice is shown and there is no session
C21_Witness ==
    /\ interview.pc = "timeout"
    /\ interview.flow = "fwa"
    /\ interview.step = "image"
    /\ interview.elapsed = InputWaitTimeout
    /\ interview.shown = "timeout_restart"
    /\ packages = <<>>

\* C21 witness: the account-count choice has timed out after 3 minutes
C21_WitnessCount ==
    /\ interview.pc = "timeout"
    /\ interview.step = "count"
    /\ interview.elapsed = CountTimeout
    /\ interview.shown = "timeout_restart"



\* C22: the task whose result the flow resumes on is the task of the
\* input that arrived first in the wait.  Violated: when the message and
\* the menu choice both arrive before the flow resumes, both tasks are in
\* the set of done tasks, the flow takes either, and the other input has
\* been consumed by its task and is dropped.
C22_FirstDrives == interview.driver # "none" => interview.driver = interview.first



\* C23: when a confirm has had its channel rename denied after the
\* summary was sent, the summary stays sent, the thanks are sent, the
\* owner is shown no error, and the failure has been logged.  Violated:
\* the denied rename is passed over without a log.
C23_RenameFailureLogged ==
    \A t \in Tokens :
        final[t].denied =>
            /\ final[t].summaries > 0
            /\ final[t].thanked
            /\ final[t].logged



(***************************************************************************)
(* The session specification with an account whose name reads as a tag.   *)
(***************************************************************************)
\* the players of the session specification; the name of #P2 is "(#P3)"
NamedPlayers == [SessionPlayers EXCEPT !["#P2"].name = <<"#P3">>]

InitNames ==
    /\ clans_config = SessionClans
    /\ players = NamedPlayers
    /\ packages = <<>>
    /\ messages = [t \in Tokens |-> NoMsg]
    /\ handlers = [h \in Handlers |-> Idle]
    /\ reply = "none"
    /\ final = [t \in Tokens |-> NoFinal]
    /\ issued = 0
    /\ quota = MaxSessions
    /\ WorldIdle

SpecNames == InitNames /\ [][Next]_vars

\* slot h is about to look up a token the registry does not hold
UnknownToken(h) ==
    /\ handlers[h].op = "clan_selection" /\ handlers[h].pc = "deferred"
    /\ handlers[h].token \notin DOMAIN packages

\* slot h is about to record a selection for an account that is not one of
\* the accounts of its session
UnknownAccount(h) ==
    /\ handlers[h].op = "clan_selection" /\ handlers[h].pc = "write"
    /\ LET package == handlers[h].packages[handlers[h].token]
       IN  account_tag(handlers[h].components.rows[handlers[h].row])
               \notin DOMAIN package.acc_clan

\* C24: a selection on a token the registry does not hold, or for an
\* account that is not of the session, ends with the not-found error and
\* leaves the registry as it was.  Violated: the account read back from the
\* placeholder is stored under a new key.
C24_SelectNotFound ==
    [][\A h \in Handlers :
         ((UnknownToken(h) \/ UnknownAccount(h)) /\ handlers'[h] # handlers[h]) =>
             /\ reply' = "error"
             /\ packages' = packages]_vars

\* the token half of C24 alone holds
C24_UnknownTokenFails ==
    [][\A h \in Handlers :
         (UnknownToken(h) /\ handlers'[h] # handlers[h]) =>
             /\ reply' = "error"
             /\ packages' = packages]_vars



(***************************************************************************)
(* The registry file: json.dump and json.load of a package.                *)
(***************************************************************************)
\* json.dump(packages, file, indent=4) (comp_clan.py:380-381) for one
\* package: the list becomes an array of strings, the mapping an object
\* whose values are strings or null, the user id a number
JsonDump(package) ==
    [account_tags |-> [i \in DOMAIN package.account_tags |->
                          <<"string", package.account_tags[i]>>],
     acc_clan     |-> [a \in DOMAIN package.acc_clan |->
                          IF package.acc_clan[a] = NULL THEN <<"null">>
                          ELSE <<"string", package.acc_clan[a]>>],
     user         |-> <<"number", package.user>>]

\* json.load(open("data/packages.json")) (comp_clan.py:241) for one package
JsonLoad(object) ==
    [account_tags |-> [i \in DOMAIN object.account_tags |-> object.account_tags[i][2]],
     acc_clan     |-> [a \in DOMAIN object.acc_clan |->
                          IF object.acc_clan[a] = <<"null">> THEN NULL
                          ELSE object.acc_clan[a][2]],
     user         |-> object.user[2]]

\* C25: the save of apply_clan stores, under a token that no stored session
\* has, a session whose account list is the account given and whose clan
\* mapping has that account as its only key, mapped to null; the session
\* read back from the file has the same account list and mapping.
C25_StartPersists ==
    [][\A h \in Handlers :
         (handlers[h].op = "apply_clan" /\ handlers[h].pc = "save"
            /\ handlers'[h] # handlers[h]) =>
            LET t       == handlers[h].token
                account == handlers[h].components.rows[1].account
            IN  /\ t \notin DOMAIN packages
                /\ t \notin DOMAIN handlers[h].packages
                /\ t \in DOMAIN packages'
                /\ packages'[t].account_tags = <<account>>
                /\ DOMAIN packages'[t].acc_clan = {account}
                /\ packages'[t].acc_clan[account] = NULL
                /\ JsonLoad(JsonDump(packages'[t])).account_tags = packages'[t].account_tags
                /\ JsonLoad(JsonDump(packages'[t])).acc_clan = packages'[t].acc_clan]_vars

\* C25 witness: an applicant's session is stored while another session is
\* in the registry, with its own account unselected
C25_Witness ==
    /\ reply = "ok"
    /\ \E t, t2 \in DOMAIN packages :
          /\ t # t2
          /\ packages[t].account_tags = <<"#P1">>
          /\ packages[t].acc_clan = ("#P1" :> NULL)
          /\ AnySelected(packages[t2].acc_clan)



\* the thresholds a hero_max check is evaluated with in the properties
Thresholds == {0, 1, 80, 100, 101, 1000}

\* C26: for an account whose heroes' maximum levels at its town hall sum to
\* zero, hero_max_check is true for every threshold, and in the flow of
\* such an account no clan is turned down by a hero_max check: where the
\* checks of a clan stopped at a failure, the failed check is another one.
C26_ZeroMaxPasses ==
    /\ \A a \in DOMAIN players :
          players[a].hero_max_sum = 0 =>
              \A min_value \in Thresholds : hero_max_check(players[a], min_value)
    /\ \A h \in Handlers :
          Generated(h) =>
              LET player == players[handlers[h].components.rows[1].account]
                  log    == handlers[h].log
              IN  player.hero_max_sum = 0 =>
                    \A i \in DOMAIN log :
                       (~log[i].offered /\ log[i].ran > 0) =>
                           clans_config[log[i].key].checks[log[i].ran].name # "hero_max"

\* C26 witness: a flow has offered an account with no maximum hero levels a
\* clan that has a hero_max check of 80
C26_Witness ==
    \E h \in Handlers :
        /\ Generated(h)
        /\ players[handlers[h].components.rows[1].account].hero_max_sum = 0
        /\ \E i \in DOMAIN handlers[h].log :
              /\ handlers[h].log[i].offered
              /\ \E j \in DOMAIN clans_config[handlers[h].log[i].key].checks :
                    clans_config[handlers[h].log[i].key].checks[j] =
                        [name |-> "hero_max", min_value |-> 80]



(***************************************************************************)
(* The in-memory caches (core/utils.py:44-46, 350-434) and their tasks     *)
(* (cogs/general/tasks.py:326-353).  The program runs on one thread and a  *)
(* coroutine gives way at an await only: a fetch is two steps, up to the   *)
(* request (the hit test included) and from the answer on.  The value of   *)
(* an entry is not followed, only its presence.                            *)
(***************************************************************************)
CacheKinds == {"player", "clan", "overwrites"}

\* the keys the lookups of a kind use
CacheKeys(kind) ==
    CASE kind = "player"     -> {"#P1", "#P2"}
      [] kind = "clan"       -> {"#C1"}
      [] kind = "overwrites" -> {"channel"}

\* the answers to a request: the object, coc.errors.NotFound (for a
\* channel ipy.errors.NotFound), coc.errors.Maintenance
Answers(kind) ==
    IF kind = "overwrites" THEN {"data", "NotFound"}
    ELSE {"data", "NotFound", "Maintenance"}

CacheOf(kind) ==
    CASE kind = "player"     -> player_cache
      [] kind = "clan"       -> clan_cache
      [] kind = "overwrites" -> overwrites_cache

\* the caches after cache_of_kind[key] = result
CacheStored(kind, key) ==
    /\ player_cache' = IF kind = "player" THEN Put(player_cache, key, "data")
                       ELSE player_cache
    /\ clan_cache' = IF kind = "clan" THEN Put(clan_cache, key, "data") ELSE clan_cache
    /\ overwrites_cache' = IF kind = "overwrites" THEN Put(overwrites_cache, key, "data")
                           ELSE overwrites_cache

\* what leaves fetch_clan and fetch_player for an answer that is not the
\* object (utils.py:370-373, 400-403); fetch_overwrites returns [] when the
\* channel is not found (utils.py:419-422)
Raised(kind, response) ==
    IF kind = "overwrites" \/ response = "data" THEN "none"
    ELSE IF response = "NotFound" THEN "InvalidTagError"
    ELSE response

\* mutant: the handlers of errors have no branch for Maintenance
ErrorAnswerNoMaintenance(error) ==
    CASE error = "none"            -> "ok"
      [] error = "InvalidTagError" -> "invalid_tag"
      [] OTHER                     -> "error"

\* errors.py:72-77 on_error and 179-193 on_command_error: the answer to the
\* user for an error that left the handler; "error" is the fallback of
\* lines 84-103 (traceback printed, "unexpected error" with Report Bug)
ErrorAnswer(error) ==
    CASE error = "none"            -> "ok"
      [] error = "InvalidTagError" -> "invalid_tag"
      [] error = "Maintenance"     -> "maintenance"
      [] OTHER                     -> "error"

FreeLookup(l) == lookups[l].pc = "idle" /\ \A w \in 1..(l - 1) : lookups[w].pc # "idle"

\* a handler calls fetch_clan, fetch_player or fetch_overwrites without
\* update (utils.py:365-370, 395-401, 414-420): a hit returns the entry and
\* the handler answers; otherwise the request is sent
FetchStart(l, kind, key) ==
    /\ FreeLookup(l)
    /\ cache_tasks.fetches < MaxFetches
    /\ cache_tasks' = [cache_tasks EXCEPT !.fetches = @ + 1]
    /\ IF key \in DOMAIN CacheOf(kind)
       THEN /\ lookups' = [lookups EXCEPT ![l] =
                   [pc |-> "idle", kind |-> kind, key |-> key, response |-> "cached"]]
            /\ reply' = "ok"
       ELSE /\ lookups' = [lookups EXCEPT ![l] =
                   [pc |-> "awaiting", kind |-> kind, key |-> key, response |-> "none"]]
            /\ reply' = "none"
    /\ UNCHANGED <<player_cache, clan_cache, overwrites_cache, beyondCaches>>

\* the answer arrives (utils.py:370-377, 400-407, 419-434): the object is
\* cached and the handler answers; an error leaves the handler and the
\* handler of errors answers
FetchResolve(l, response) ==
    /\ lookups[l].pc = "awaiting"
    /\ response \in Answers(lookups[l].kind)
    /\ IF response = "data" THEN CacheStored(lookups[l].kind, lookups[l].key)
       ELSE UNCHANGED <<player_cache, clan_cache, overwrites_cache>>
    /\ reply' = ErrorAnswer(Raised(lookups[l].kind, response))
    /\ lookups' = [lookups EXCEPT ![l] = [@ EXCEPT !.pc = "idle", !.response = response]]
    /\ UNCHANGED <<cache_tasks, beyondCaches>>

\* update_player_cache goes on to the next key of its list, or returns
NextKey(task, keys) ==
    IF keys = {} THEN {[task EXCEPT !.pc = "idle", !.keys = {}, !.completed = @ + 1]}
    ELSE {[task EXCEPT !.pc = "fetching", !.keys = keys \ {key}, !.key = key] : key \in keys}

\* tasks.py:326-337: the 3-hour trigger fires; the list of keys is copied
\* and the first request is sent (fetch_player with update=True does not
\* read the cache)
RefreshStart ==
    /\ cache_tasks.pc = "idle"
    /\ cache_tasks.refreshes < MaxRefreshes
    /\ cache_tasks' \in NextKey([cache_tasks EXCEPT !.refreshes = @ + 1, !.key = NULL,
                                                    !.response = "none"],
                                DOMAIN player_cache)
    /\ UNCHANGED <<player_cache, clan_cache, overwrites_cache, lookups, reply, beyondCaches>>

\* tasks.py:337-343 and utils.py:400-407: the answer for the key arrives.
\* The object is stored; InvalidTagError runs del player_cache[key], which
\* raises KeyError when the key is not in the cache and ends the run;
\* Maintenance is passed over
RefreshResolve(response) ==
    /\ cache_tasks.pc = "fetching"
    /\ response \in Answers("player")
    /\ LET key  == cache_tasks.key
           task == [cache_tasks EXCEPT !.response = response]
       IN  CASE response = "data" ->
                  /\ player_cache' = Put(player_cache, key, "data")
                  /\ cache_tasks' \in NextKey(task, task.keys)
             [] response = "NotFound" ->
                  IF key \in DOMAIN player_cache
                  THEN /\ player_cache' = Del(player_cache, key)
                       /\ cache_tasks' \in NextKey(task, task.keys)
                  ELSE /\ player_cache' = player_cache
                       /\ cache_tasks' = [task EXCEPT !.pc = "idle", !.keys = {},
                                                      !.faults = @ \cup {"KeyError"}]
             [] response = "Maintenance" ->
                  /\ player_cache' = player_cache
                  /\ cache_tasks' \in NextKey(task, task.keys)
    /\ UNCHANGED <<clan_cache, overwrites_cache, lookups, reply, beyondCaches>>

\* tasks.py:345-353 clear_player_cache: the 48-hour trigger fires
ClearPlayerCache ==
    /\ cache_tasks.clears < MaxClears
    /\ player_cache' = <<>>
    /\ cache_tasks' = [cache_tasks EXCEPT !.clears = @ + 1]
    /\ UNCHANGED <<clan_cache, overwrites_cache, lookups, reply, beyondCaches>>

InitCaches == SessionsIdle /\ reply = "none" /\ WorldIdle

NextCaches ==
    \/ \E l \in 1..MaxLookups, kind \in CacheKinds :
           \E key \in CacheKeys(kind) : FetchStart(l, kind, key)
    \/ \E l \in 1..MaxLookups, response \in {"data", "NotFound", "Maintenance"} :
           FetchResolve(l, response)
    \/ RefreshStart
    \/ \E response \in {"data", "NotFound", "Maintenance"} : RefreshResolve(response)
    \/ ClearPlayerCache

SpecCaches == InitCaches /\ [][NextCaches]_vars


\* slot l takes the answer to its request in this step
LookupAnswered(l) == lookups[l].pc = "awaiting" /\ lookups'[l].pc = "idle"

\* update_player_cache takes the answer for its key in this step
RefreshAnswered ==
    /\ cache_tasks.pc = "fetching"
    /\ cache_tasks'.pc = "idle" \/ cache_tasks'.keys # cache_tasks.keys

C27_WitnessEvicted ==
    /\ reply = "maintenance"
    /\ cache_tasks.response = "NotFound"
    /\ cache_tasks.faults = {}
    /\ cache_tasks.completed > 0
    /\ cache_tasks.key \notin DOMAIN player_cache


\* clear_player_cache runs in this step
Cleared == cache_tasks'.clears = cache_tasks.clears + 1

\* C28: after a run of the 48-hour clear the cache of accounts, the cache
\* of clans and the cache of permission overwrites are all empty.
\* Violated: only the cache of accounts is cleared.
C28_ClearEmptiesAll ==
    [][Cleared =>
          /\ player_cache' = <<>>
          /\ clan_cache' = <<>>
          /\ overwrites_cache' = <<>>]_vars

\* the part of C28 that holds: the clear empties the cache of accounts
C28_ClearEmptiesPlayers == [][Cleared => player_cache' = <<>>]_vars

\* C29: no operation on a cache raises: no run of update_player_cache has
\* ended in an exception.  Violated: the refresh deletes a key that the
\* clear removed while the refresh was waiting for the answer.
C29_NoCacheFault == cache_tasks.faults = {}



\* the tickets of `member` among the channels the behaviour has created for
\* a ticket type: in the type's first category, with the member's id in
\* the topic
TicketsCreated(member, ticket_type) ==
    {ch \in DOMAIN channels :
        /\ channels[ch].parent_id = ResolvedCategories(ticket_type)[1]
        /\ channels[ch].topic = ApplicantTopic(member.id)
        /\ channels[ch].name \in TicketNames(ticket_type, member)}

\* C30: however the calls of create for one owner and one ticket type
\* overlap, the owner has at most one ticket channel of that type.
\* Violated: two calls that both look through the categories before either
\* creates its channel create one channel each.
C30_OneTicketPerOwner ==
    \A member \in Members, ticket_type \in TicketTypes :
        Cardinality(TicketsCreated(member, ticket_type)) <= 1



\* C31: when a sweep of the trial events ends, an event that a staff action
\* has set or removed in the file since the sweep read it is in the file
\* as the staff action left it.  Violated: the sweep dumps the dict it read.
C31_StaffChangeSurvives ==
    [][(trials.pc # "idle" /\ trials'.pc = "idle") =>
          \A key \in TimerKeys :
              Stored(trial_events, key) # Stored(trials.copy, key) =>
                  Stored(trial_events', key) = Stored(trial_events, key)]_vars



\* C32: when the automatic confirmation goes on to finalize a session,
\* every account of the session has a clan in the registry.  Violated: the
\* confirmation only asks for one selected account, and an overlapping
\* handler can have written an older mapping during the wait.
C32_AutoConfirmComplete ==
    [][\A h \in Handlers :
         (handlers[h].op = "clan_selection" /\ handlers[h].pc = "wait2"
            /\ handlers'[h].pc = "summary") =>
              /\ handlers[h].token \in DOMAIN packages
              /\ ~AnyUnset(packages[handlers[h].token].acc_clan)]_vars



\* C33: the summary of a session is posted at most once, whatever confirm
\* presses and automatic confirmations there are.  Violated: two confirms
\* that both read the registry before either has disabled the buttons both
\* post the summary.
C33_FinalizedOnce == \A t \in Tokens : final[t].summaries <= 1



\* C34: when a sweep of the trial events ends, with or without a failure,
\* the changes it made in its dict for the events it had finished before
\* are in the file.  Violated: a failed send ends the sweep before its
\* dump.
C34_FailureKeepsOthers ==
    [][(trials.pc # "idle" /\ trials'.pc = "idle") =>
          \A key \in DOMAIN trials.copy :
              (/\ key # Head(trials.todo)
               /\ Stored(trials.trial_events, key) # Stored(trials.copy, key))
                 => Stored(trial_events', key) = Stored(trials.trial_events, key)]_vars


\* C35: every record an application flow writes to the session registry is
\* removed once its ticket channel is gone: when the daily cleanup finishes
\* its pass over packages.json with every ticket channel deleted and every
\* deletion handled, the registry is empty.  The record of the FWA flow
\* names no channel, so neither the listener nor the cleanup matches it.
C35_RecordsRemoved ==
    [][(/\ cleaner.pc = "packages"
        /\ cleaner'.pc # "packages"
        /\ channels = <<>>
        /\ pending = {}) => packages' = <<>>]_vars

\* the same holds of the records that name a channel
C35_ChannelRecordsRemoved ==
    [][(/\ cleaner.pc = "packages"
        /\ cleaner'.pc # "packages"
        /\ channels = <<>>
        /\ pending = {}) => \A t \in DOMAIN packages' : ~NamesChannel(packages'[t])]_vars

\* the record of the FWA flow is in the registry in every reachable state
C35_FwaRecordStays == 3 \in DOMAIN packages /\ ~NamesChannel(packages[3])


\* the start modal and the staff command set an end event in the file
\* dated 3 to 14 days after the moment they run
ImmediateTrialLasts ==
    \A key \in TimerKeys :
        (/\ trials' = trials
         /\ Stored(trial_events', key) # Stored(trial_events, key)
         /\ key \in DOMAIN trial_events'
         /\ trial_events'[key].action = "end")
            => trial_events'[key].date - now \in 3..14

\* the sweep replaces an elapsed start event by an end event dated 3 to 14
\* days after the moment it starts the trial
DelayedTrialLasts ==
    (/\ trials.pc = "fetch"
     /\ trials'.pc = "send"
     /\ trials.copy[Head(trials.todo)].action = "start")
        => trials'.trial_events[Head(trials.todo)].date - now \in 3..14

\* C36: every trial lasts 3 to 14 days: each path that schedules the end of
\* a trial (the start modal, the staff command, the start of a delayed
\* trial by the sweep) produces an end event dated 3 to 14 days after the
\* start of the trial.
C36_TrialLasts == [][ImmediateTrialLasts /\ DelayedTrialLasts]_vars

\* the paths that start the trial at once keep the range
C36_ImmediateTrialLasts == [][ImmediateTrialLasts]_vars


\* the accounts supplied in the run that stored the record
Supplied(package) ==
    IF "acc_images" \in DOMAIN package THEN DOMAIN package.acc_images
    ELSE {package.account_tags[n] : n \in DOMAIN package.account_tags}

\* the flows whose completion stores a record of the given kinds link
\* every supplied account that was linked to no user to the applicant
LinksSupplied(kinds) ==
    \A t \in DOMAIN packages' \ DOMAIN packages :
        ("acc_images" \in DOMAIN packages'[t]) \in kinds =>
            \A tag \in Supplied(packages'[t]) :
                ~Linked(tag, reverse_dict(member_tags)) =>
                    \A author \in InterviewAuthors : In(tag, TagsOf(member_tags', author))

\* C37: when an application flow completes, every supplied account that
\* was linked to no user is linked to the applicant in the stored map of
\* linked accounts.
C37_SuppliedLinked == [][LinksSupplied(BOOLEAN)]_vars

\* the same of the competitive flow alone, which never writes the map
C37_ClanLinked == [][LinksSupplied({FALSE})]_vars

\* the same of the FWA flow alone, which writes the map it loaded at its
\* last tag step
C37_FwaLinked == [][LinksSupplied({TRUE})]_vars

\* the run of the FWA flow with a single account links it
C37_FwaSingleLinked ==
    [][interview.accounts = 1 => LinksSupplied({TRUE})]_vars


(***************************************************************************)
(* The unlink specification: the staff unlinks one account or "all" of a   *)
(* user who has one or two, with and without the id typed over the         *)
(* selection, while accounts are linked.                                   *)
(***************************************************************************)
\* the maps the file starts with
UnlinkLinks == {(11 :> <<"#P1", "#P2">>), (11 :> <<"#P1">> @@ 12 :> <<"#P2">>)}

\* the ids typed in the option user_id: 0 for none
UserIds == {0, 12}

InitUnlink ==
    /\ SessionsIdle
    /\ reply = "none"
    /\ EarlierIdle
    /\ trial_votes = <<>>
    /\ votes_cast = 0
    /\ ballots = NoBallots
    /\ commands = [c \in 1..MaxCommands |-> NoCommand]
    /\ member_tags \in UnlinkLinks
    /\ linkers = [l \in 1..MaxLinkers |-> NoLinker]
    /\ interview = NoInterview
    /\ CachesIdle

NextUnlink ==
    \/ \E l \in 1..MaxLinkers :
           \/ \E user \in UnlinkUsers, player_tag \in LinkTags \cup {"all"}, user_id \in UserIds :
                  UnlinkRead(l, user, player_tag, user_id)
           \/ \E user \in LinkUsers, tags \in TagInputs : LinkerRead(l, "link", user, tags)
    \/ \E l \in 1..MaxLinkers :
           \/ UnlinkWrite(l)
           \/ LinkWrite(l)

SpecUnlink == InitUnlink /\ [][NextUnlink]_vars

\* slot l completes an unlink of "all" in this step
UnlinksAll(l) ==
    /\ linkers[l].op = "unlink"
    /\ linkers[l].tags = <<"all">>
    /\ linkers'[l].op = "idle"

\* the user the unlink of slot l is aimed at
Target(l) == IF linkers[l].user_id = 0 THEN linkers[l].user ELSE linkers[l].user_id

\* C38: player_unlink with the tag "all" removes every account linked to
\* the target user: after it the target has no linked account and the
\* links of every other user are as they were.
C38_UnlinkAll ==
    [][\A l \in 1..MaxLinkers :
          UnlinksAll(l) =>
              /\ TagsOf(member_tags', Target(l)) = <<>>
              /\ \A other \in LinkUsers \ {Target(l)} :
                     TagsOf(member_tags', other) = TagsOf(member_tags, other)]_vars

\* the same of an unlink of the user selected that no other command
\* overlaps
C38_UnlinkAllAlone ==
    [][\A l \in 1..MaxLinkers :
          (/\ UnlinksAll(l)
           /\ linkers[l].user_id = 0
           /\ linkers[l].player_links = member_tags)
              => /\ TagsOf(member_tags', Target(l)) = <<>>
                 /\ \A other \in LinkUsers \ {Target(l)} :
                        TagsOf(member_tags', other) = TagsOf(member_tags, other)]_vars

\* an unlink of "all" that no other command overlaps leaves the links of
\* the other users as they were, and empties the list of a target who has
\* one account
C38_UnlinkAllOfOne ==
    [][\A l \in 1..MaxLinkers :
          (/\ UnlinksAll(l)
           /\ linkers[l].user_id = 0
           /\ linkers[l].player_links = member_tags)
              => /\ Len(TagsOf(member_tags, Target(l))) = 1
                        => TagsOf(member_tags', Target(l)) = <<>>
                 /\ \A other \in LinkUsers \ {Target(l)} :
                        TagsOf(member_tags', other) = TagsOf(member_tags, other)]_vars


\* the buckets of the poll that list the voter
BucketsOf(data, voter) == {key \in Buckets : In(voter, data[key])}

\* each voter is listed, once, in the bucket of their last accepted press
\* and in no other, and a voter without an accepted press in none
LatestInBucket ==
    \A poll_token \in DOMAIN trial_votes : \A voter \in Voters :
        /\ BucketsOf(trial_votes[poll_token], voter) =
               IF ballots.latest[poll_token][voter] = "none" THEN {}
               ELSE {ballots.latest[poll_token][voter]}
        /\ Listed(trial_votes[poll_token], voter) <= 1

\* a press that is turned down as a repetition leaves the polls as they
\* were
RepeatRejected == reply' = "already_voted" => trial_votes' = trial_votes

\* the press handled in a step is turned down as a repetition when it is
\* on the bucket of the voter's last accepted press, and accepted when it
\* is on another bucket and the voter is authorised
PressOutcome ==
    reply' # "poll_created" =>
        reply' = IF ballots'.last[1] \notin Allowed THEN "not_allowed"
                 ELSE IF ballots.latest[ballots'.last[3]][ballots'.last[1]] = ballots'.last[2]
                 THEN "already_voted"
                 ELSE "voted"

\* C39: after any interleaving of presses by authorised voters, each voter
\* who has voted is in exactly the bucket of their most recent accepted
\* press; a repeated press on the same bucket is rejected without change;
\* no accepted vote is lost.
C39_LatestPress == []LatestInBucket /\ [][RepeatRejected /\ PressOutcome]_vars

\* C39 witness: after four accepted presses, two of them changes of vote,
\* the second voter has repeated their press and was turned down
C39_Witness ==
    /\ votes_cast = 4
    /\ reply = "already_voted"
    /\ ballots.last = <<22, "neutral", 1>>
    /\ ballots.latest[1][21] = "upvote"
    /\ trial_votes[1] = [upvote |-> <<21>>, neutral |-> <<22>>, downvote |-> <<>>]


\* the channel is a ticket of the member: the registry lists it under the
\* member, or a create of the member has made it and is about to list it
OwnsTicket(id, ch) ==
    \/ In(ch, IF id \in DOMAIN open_tickets THEN open_tickets[id] ELSE <<>>)
    \/ \E w \in Creators :
          creators[w].pc = "register" /\ creators[w].member = id /\ creators[w].channel = ch

\* the creates of the given members are refused only over a ticket of the
\* member in a category of the type asked for
RefusedOverOwn(ids) ==
    \A c \in Creators :
        (/\ creators[c].pc = "scan"
         /\ creators[c].member \in ids
         /\ creators'[c] = NoCreator
         /\ reply' = "refused")
            => \E ch \in DOMAIN channels :
                  /\ In(channels[ch].parent_id, ResolvedCategories(creators[c].ticket_type))
                  /\ OwnsTicket(creators[c].member, ch)

\* C40: create refuses only when the requesting owner has an open ticket
\* of that type: an open ticket of a different user never causes a refusal.
C40_RefusedOverOwnTicket == [][RefusedOverOwn({m.id : m \in Members})]_vars

\* the same of the member whose normalised name no other member shares
C40_DistinctNameRefused == [][RefusedOverOwn({13})]_vars

=============================================================================
